---- MODULE Spec2Model ----
(***************************************************************************)
(* Model of autocontain's source-code indexing subsystem:                  *)
(*   src/src/parser.rs  walking a repository, extracting classes,          *)
(*                      functions, attributes and call dependencies        *)
(*   src/src/db.rs      the SQLite store (four tables) and its queries     *)
(*   src/src/chat.rs    format_program_flow / build_flow                   *)
(*                                                                         *)
(* Source text is a sequence of tokens: a token is one punctuation         *)
(* character ("(", ")", "[", "]", ",", ":", " ", "=", "\"") or a run of    *)
(* other characters ("self", "int", ...).  None of the string operations   *)
(* of the code modelled here (split on ',' and ':', trim of whitespace,    *)
(* of parentheses, of double quotes) cuts inside such a run.               *)
(*                                                                         *)
(* A syntax tree is a sequence of nodes in document (pre-)order; each node *)
(* names its parent (0: the module root), so the subtree of node i is the  *)
(* contiguous range i..SubtreeEnd(t, i) and a depth-first traversal visits *)
(* it in index order.  A node's index stands for its row number.           *)
(***************************************************************************)
EXTENDS Integers, Sequences, FiniteSets, TLC

VARIABLES
    \* ---- the store (db.rs, initialize_db) ----
    repositories,           \* rows of table repositories
    classes,                \* rows of table classes
    functions,              \* rows of table functions
    function_dependencies,  \* rows of table function_dependencies
    last_insert_rowid,      \* the connection's last inserted rowid
    \* ---- one indexing run (parser.rs) ----
    pc,                     \* position of the indexing process
    repo_id,                \* parse_repository's repo_id
    walk,                   \* the entries WalkDir yields, in order
    entry,                  \* index in walk of the entry at hand
    node,                   \* index in the file's tree of the node at hand
    class_node,             \* the class node whose subtree is traversed (0: none)
    class_id,               \* class_id read after insert_class
    func_class_id,          \* class_id handed to process_function_definition
    runs,                   \* calls of parse_repository so far
    walked,                 \* entries handed to the runs so far
    history,                \* the paths walked by every run, in order
    parsed,                 \* the paths handed to parse_file in the run at hand
    \* ---- one flow reconstruction (chat.rs) ----
    fpc,                    \* position of format_program_flow
    flow,                   \* formatted_flow, one element per push
    visited,                \* the visited set
    stack,                  \* build_flow's activation records
    result,                 \* what format_program_flow returned
    \* ---- attribute classification on its own (parser.rs) ----
    apc,                    \* position of the classification step
    init_params,            \* parameters of the constructor at hand
    attributes,             \* the attributes extracted from them
    \* ---- a query of the store on its own (db.rs) ----
    query,                  \* the last query made: its name and arguments
    answer,                 \* the Result it returned
    \* ---- the chat session (chat.rs) ----
    previous,               \* what the reconstruction before this one gave
    failed,                 \* the store failed a query of this reconstruction
    \* ---- find_and_merge_content on its own (repo.rs) ----
    mpc,                    \* position of the call
    dir,                    \* the directory it is given
    depth,                  \* its depth argument
    merged,                 \* the Result it returned
    \* ---- the working directory of the tool (repo.rs) ----
    tags_txt,               \* the lines of tags.txt (None: no such file)
    source,                 \* the names of the directories of source/
    scripts,                \* the names of the directories of scripts/
    last_call               \* the last call made and how it ended

storeVars == <<repositories, classes, functions, function_dependencies,
               last_insert_rowid>>
indexVars == <<pc, repo_id, walk, entry, node, class_node, class_id,
               func_class_id, runs, walked, history, parsed>>
flowVars  == <<fpc, flow, visited, stack, result>>
attrVars  == <<apc, init_params, attributes>>
queryVars == <<query, answer>>
chatVars  == <<previous, failed>>
mergeVars == <<mpc, dir, depth, merged>>
tagVars   == <<tags_txt, source, scripts, last_call>>
repoVars  == <<mergeVars, tagVars>>
vars      == <<storeVars, indexVars, flowVars, attrVars, queryVars, chatVars,
               repoVars>>

\* Option<T>: None is the empty sequence, Some(x) the sequence of x alone
None == <<>>
Some(x) == <<x>>
UnwrapOr(o, d) == IF o = None THEN d ELSE o[1]

Min(S) == CHOOSE x \in S : \A y \in S : x <= y
Max(S) == CHOOSE x \in S : \A y \in S : x >= y

RECURSIVE Concat(_)
Concat(ss) == IF ss = <<>> THEN <<>> ELSE Head(ss) \o Concat(Tail(ss))

RECURSIVE Join(_, _)
Join(ss, sep) ==
    IF ss = <<>> THEN <<>>
    ELSE IF Len(ss) = 1 THEN Head(ss)
    ELSE Head(ss) \o sep \o Join(Tail(ss), sep)

Range(s) == {s[k] : k \in 1..Len(s)}

RECURSIVE SetToSeqs(_)
\* every order in which the elements of a set can be listed
SetToSeqs(S) ==
    IF S = {} THEN {<<>>}
    ELSE UNION {{<<x>> \o r : r \in SetToSeqs(S \ {x})} : x \in S}

(***************************************************************************)
(* String operations of the Rust standard library, on token sequences.     *)
(***************************************************************************)
Whitespace == {" "}

TrimStartMatches(s, cs) ==
    LET keep == {k \in 1..Len(s) : s[k] \notin cs}
    IN  IF keep = {} THEN <<>> ELSE SubSeq(s, Min(keep), Len(s))

TrimEndMatches(s, cs) ==
    LET keep == {k \in 1..Len(s) : s[k] \notin cs}
    IN  IF keep = {} THEN <<>> ELSE SubSeq(s, 1, Max(keep))

TrimMatches(s, cs) == TrimEndMatches(TrimStartMatches(s, cs), cs)

Trim(s) == TrimMatches(s, Whitespace)

RECURSIVE Split(_, _)
\* str::split(c): the pieces between the occurrences of c (one piece, the
\* string itself, when c does not occur; the empty string gives one empty piece)
Split(s, c) ==
    LET at == {k \in 1..Len(s) : s[k] = c}
    IN  IF at = {} THEN <<s>>
        ELSE <<SubSeq(s, 1, Min(at) - 1)>>
             \o Split(SubSeq(s, Min(at) + 1, Len(s)), c)

Skip(ss, n) == SubSeq(ss, n + 1, Len(ss))

(***************************************************************************)
(* Syntax trees (tree-sitter-python), as far as parser.rs looks at them.   *)
(***************************************************************************)
\* a parameter of a function definition, as written in the source
Param(name, ann, def) == [name |-> name, ann |-> ann, def |-> def]

\* the source text of one parameter: name, ": annotation", "=default"
ParamText(p) ==
    <<p.name>>
    \o (IF p.ann = <<>> THEN <<>> ELSE <<":", " ">> \o p.ann)
    \o (IF p.def = <<>> THEN <<>> ELSE <<"=">> \o p.def)

\* utf8_text of a `parameters` node: "(p1, p2, ...)"
ParametersText(ps) ==
    <<"(">> \o Join([k \in 1..Len(ps) |-> ParamText(ps[k])], <<",", " ">>)
    \o <<")">>

Def(kind, parent, text, params, ret) ==
    [kind |-> kind, parent |-> parent, text |-> text, params |-> params,
     target |-> "", ret |-> ret, literal |-> <<>>]
Call(parent, target, text) ==
    [kind |-> "call", parent |-> parent, text |-> text, params |-> <<>>,
     target |-> target, ret |-> None, literal |-> <<>>]
Other(kind, parent) ==
    [kind |-> kind, parent |-> parent, text |-> "", params |-> <<>>,
     target |-> "", ret |-> None, literal |-> <<>>]
String(parent, literal) ==
    [kind |-> "string", parent |-> parent, text |-> "", params |-> <<>>,
     target |-> "", ret |-> None, literal |-> literal]

RECURSIVE IsAncestor(_, _, _)
\* node a is j or an ancestor of j
IsAncestor(t, a, j) ==
    IF j = a THEN TRUE
    ELSE IF j = 0 THEN FALSE
    ELSE IsAncestor(t, a, t[j].parent)

\* last index of the subtree of node i
SubtreeEnd(t, i) == Max({j \in i..Len(t) : IsAncestor(t, i, j)})

\* the nodes of the subtree of i, in depth-first order
Subtree(t, i) == i..SubtreeEnd(t, i)

\* node.children(): the nodes whose parent is i (i = 0: the root's children)
Children(t, i) == {j \in 1..Len(t) : t[j].parent = i}

\* extract_identifier: the text of the first identifier child
extract_identifier(n) ==
    IF n.kind \in {"function_definition", "class_definition"}
    THEN Some(n.text) ELSE None

\* extract_return_type: the text of the return_type field, if any
extract_return_type(n) == n.ret

\* extract_parameters: the text of the parameters child without the
\* parentheses at its two ends
extract_parameters(n) ==
    IF n.kind = "function_definition"
    THEN Some(TrimMatches(ParametersText(n.params), {"(", ")"})) ELSE None

\* find_docstring: the first string node of the subtree, without the double
\* quotes at its two ends; None when there is no string node
extract_docstring(t, i) ==
    LET strs == {j \in Subtree(t, i) : t[j].kind = "string"}
    IN  IF strs = {} THEN None
        ELSE Some(TrimMatches(t[Min(strs)].literal, {"\""}))

(***************************************************************************)
(* extract_attributes                                                      *)
(***************************************************************************)
\* the map closure: one piece of the split parameter list -> "name: type"
ParamToAttribute(piece) ==
    LET param == Trim(piece)
        parts == Split(param, ":")
        param_name == Trim(parts[1])
        param_type == IF Len(parts) > 1
                      THEN Trim(TrimEndMatches(Trim(parts[2]), {")"}))
                      ELSE <<"unknown">>
    IN  param_name \o <<":", " ">> \o param_type

\* params.split(',').skip(1)
SplitParams(params) == Skip(Split(params, ","), 1)

\* the attributes one __init__ contributes
InitAttributes(n) ==
    IF extract_parameters(n) = None THEN <<>>
    ELSE LET pieces == SplitParams(extract_parameters(n)[1])
         IN  [k \in 1..Len(pieces) |-> ParamToAttribute(pieces[k])]

RECURSIVE AttributesFrom(_, _, _)
\* traverse: the attributes collected from nodes j..last, in order
AttributesFrom(t, j, last) ==
    IF j > last THEN <<>>
    ELSE (IF t[j].kind = "function_definition"
             /\ extract_identifier(t[j]) = Some("__init__")
          THEN InitAttributes(t[j]) ELSE <<>>)
         \o AttributesFrom(t, j + 1, last)

\* the Vec attributes after the traversal of class node i
AttributeList(t, i) == AttributesFrom(t, i, SubtreeEnd(t, i))

extract_attributes(t, i) ==
    LET attrs == AttributeList(t, i)
    IN  IF attrs = <<>> THEN None ELSE Some(Join(attrs, <<",", " ">>))

(***************************************************************************)
(* Attribute classification on its own: a class whose only member is a     *)
(* constructor with the parameters init_params.                            *)
(***************************************************************************)
MaxParams == 2

Self == Param("self", <<>>, <<>>)

\* x | x: int | y: str | z: int=0 | n=f() | items: list=[1,2,3]
\* | t: Tuple[int, str]
ParamPool ==
    { Param("x", <<>>, <<>>),
      Param("x", <<"int">>, <<>>),
      Param("y", <<"str">>, <<>>),
      Param("z", <<"int">>, <<"0">>),
      Param("n", <<>>, <<"f", "(", ")">>),
      Param("items", <<"list">>, <<"[", "1", ",", "2", ",", "3", "]">>),
      Param("t", <<"Tuple", "[", "int", ",", " ", "str", "]">>, <<>>) }

RECURSIVE SeqsUpTo(_, _)
\* the sequences over S of length at most n
SeqsUpTo(S, n) ==
    IF n = 0 THEN {<<>>}
    ELSE LET shorter == SeqsUpTo(S, n - 1)
         IN  shorter \cup {<<x>> \o r : x \in S, r \in {q \in shorter : Len(q) = n - 1}}

\* class C:  def __init__(<ps>): ...
ClassWithInit(ps) ==
    << Def("class_definition", 0, "C", <<>>, None),
       Def("function_definition", 1, "__init__", ps, None) >>

AttrInit ==
    /\ apc = "input"
    /\ init_params \in {<<Self>> \o r : r \in SeqsUpTo(ParamPool, MaxParams)}
    /\ attributes = <<>>

\* create_class_struct's call of extract_attributes, up to the join
ClassifyAttributes ==
    /\ apc = "input"
    /\ attributes' = AttributeList(ClassWithInit(init_params), 1)
    /\ apc' = "done"
    /\ UNCHANGED <<init_params, storeVars, indexVars, flowVars, queryVars,
                   chatVars, repoVars>>

(***************************************************************************)
(* The store: db.rs                                                        *)
(***************************************************************************)
\* `as i32` of a rowid: the value itself below 2^31 (a table of the model
\* holds a handful of rows; the wrap-around beyond 2^31 rows is not modelled)
AsI32(x) == x

\* a rowid that starts again from 1 with every INSERT
NextRowidFirst(table) == 1

\* the rowid SQLite gives a new row of a table with INTEGER PRIMARY KEY id
NextRowid(table) ==
    IF table = <<>> THEN 1 ELSE Max({table[k].id : k \in 1..Len(table)}) + 1

\* insert_repository: the table after the INSERT (description: unwrap_or(""))
insert_repository(repo) ==
    Append(repositories,
           [id |-> NextRowid(repositories), name |-> repo.name,
            description |-> UnwrapOr(repo.description, <<>>)])

\* insert_class: the table after the INSERT
insert_class(class) ==
    Append(classes, [class EXCEPT !.id = NextRowid(classes)])

\* insert_function: the table after the INSERT
insert_function(func) ==
    Append(functions, [func EXCEPT !.id = NextRowid(functions)])

\* one INSERT per element of dependencies that skips a row already there
insert_dependencies_unique(function_name, cid, dependencies) ==
    function_dependencies
    \o SelectSeq([k \in 1..Len(dependencies) |->
                     [function_name |-> function_name,
                      dependency |-> dependencies[k], class_id |-> cid]],
                 LAMBDA row : row \notin Range(function_dependencies))

\* insert_dependencies: the table after one INSERT per element of dependencies
insert_dependencies(function_name, cid, dependencies) ==
    function_dependencies
    \o [k \in 1..Len(dependencies) |->
           [function_name |-> function_name, dependency |-> dependencies[k],
            class_id |-> cid]]

RECURSIVE SelectDependenciesAnyClass(_, _, _)
\* the WHERE clause with a NULL class_id standing for any class
SelectDependenciesAnyClass(rows, function_name, cid) ==
    IF rows = <<>> THEN <<>>
    ELSE (IF Head(rows).function_name = function_name
             /\ (cid = None \/ Head(rows).class_id = cid)
          THEN <<Head(rows)>> ELSE <<>>)
         \o SelectDependenciesAnyClass(Tail(rows), function_name, cid)

RECURSIVE SelectDependencies(_, _, _)
\* the rows of function_dependencies the WHERE clause keeps, in table order;
\* `class_id = ?2` is never true of a NULL class_id
SelectDependencies(rows, function_name, cid) ==
    IF rows = <<>> THEN <<>>
    ELSE (IF Head(rows).function_name = function_name
             /\ Head(rows).class_id = cid
          THEN <<Head(rows)>> ELSE <<>>)
         \o SelectDependencies(Tail(rows), function_name, cid)

\* the query stopping at its first row
get_dependencies_first(function_name, cid) ==
    LET rows == SelectDependencies(function_dependencies, function_name, cid)
    IN  [k \in 1..Min({1, Len(rows)}) |->
            <<rows[k].dependency, rows[k].class_id>>]

\* the query without `AND class_id = ?2`: the rows of every class
get_dependencies_any_class(function_name, cid) ==
    LET rows == SelectDependenciesAnyClass(function_dependencies,
                                           function_name, None)
    IN  [k \in 1..Len(rows) |-> <<rows[k].dependency, rows[k].class_id>>]

\* get_dependencies: the (dependency, class_id) pairs of the selected rows
get_dependencies(function_name, cid) ==
    LET rows == SelectDependencies(function_dependencies, function_name, cid)
    IN  [k \in 1..Len(rows) |-> <<rows[k].dependency, rows[k].class_id>>]

\* get_function_description: query_row reads the docstring of the first
\* matching row into a String; no row, or a NULL docstring, is an Err
get_function_description(function_name, cid) ==
    LET hits == {k \in 1..Len(functions) :
                    /\ functions[k].name = function_name
                    /\ functions[k].class_id = cid}
    IN  IF hits = {} THEN [ok |-> FALSE, value |-> <<"QueryReturnedNoRows">>]
        ELSE IF functions[Min(hits)].docstring = None
             THEN [ok |-> FALSE, value |-> <<"InvalidColumnType">>]
             ELSE [ok |-> TRUE, value |-> functions[Min(hits)].docstring[1]]

(***************************************************************************)
(* Extraction: parser.rs                                                   *)
(***************************************************************************)
RECURSIVE CalleesFrom(_, _, _, _)
\* extract_dependencies' traverse over nodes j..last: the HashSet after it
CalleesFrom(t, j, last, dependencies) ==
    IF j > last THEN dependencies
    ELSE CalleesFrom(t, j + 1, last,
            IF t[j].kind = "call" /\ t[j].target = "identifier"
            THEN dependencies \cup {t[j].text} ELSE dependencies)

RECURSIVE CallsFrom(_, _, _)
\* the callees of nodes j..last, one element per call
CallsFrom(t, j, last) ==
    IF j > last THEN <<>>
    ELSE (IF t[j].kind = "call" /\ t[j].target = "identifier"
          THEN <<t[j].text>> ELSE <<>>)
         \o CallsFrom(t, j + 1, last)

\* the dependencies collected in a Vec instead of a HashSet
extract_dependencies_vec(t, i) == {CallsFrom(t, i, SubtreeEnd(t, i))}

\* extract_dependencies: the Vecs `dependencies.into_iter().collect()` can
\* give; a HashSet iterates in no particular order
extract_dependencies(t, i) ==
    SetToSeqs(CalleesFrom(t, i, SubtreeEnd(t, i), {}))

\* create_class_struct
create_class_struct(t, i, rid, file_path) ==
    [id |-> None,
     repo_id |-> rid,
     name |-> UnwrapOr(extract_identifier(t[i]), "<unknown>"),
     attributes |-> extract_attributes(t, i),
     file_location |-> file_path,
     start_line |-> i,
     end_line |-> SubtreeEnd(t, i),
     docstring |-> extract_docstring(t, i)]

\* create_function_struct leaving class_id unset
create_function_struct_free(t, i, rid, cid, file_path) ==
    [id |-> None,
     repo_id |-> rid,
     class_id |-> None,
     name |-> UnwrapOr(extract_identifier(t[i]), "<unknown>"),
     parameters |-> extract_parameters(t[i]),
     return_type |-> extract_return_type(t[i]),
     file_location |-> file_path,
     start_line |-> i,
     end_line |-> SubtreeEnd(t, i),
     docstring |-> extract_docstring(t, i)]

\* create_function_struct
create_function_struct(t, i, rid, cid, file_path) ==
    [id |-> None,
     repo_id |-> rid,
     class_id |-> cid,
     name |-> UnwrapOr(extract_identifier(t[i]), "<unknown>"),
     parameters |-> extract_parameters(t[i]),
     return_type |-> extract_return_type(t[i]),
     file_location |-> file_path,
     start_line |-> i,
     end_line |-> SubtreeEnd(t, i),
     docstring |-> extract_docstring(t, i)]

(***************************************************************************)
(* The repositories indexed.  Each file is given with its Python source.   *)
(***************************************************************************)
\* def main():
\*     "entry point"
\*     f(); f(); obj.g()
\* def f():
\*     main()
FlowPy ==
    << Def("function_definition", 0, "main", <<>>, None),
       String(1, <<"\"", "entry point", "\"">>),
       Call(1, "identifier", "f"),
       Call(1, "identifier", "f"),
       Call(1, "attribute", "obj.g"),
       Def("function_definition", 0, "f", <<>>, None),
       Call(6, "identifier", "main") >>

\* def outer():
\*     def inner():
\*         main()
\* @cached
\* def deco(): ...
NestedPy ==
    << Def("function_definition", 0, "outer", <<>>, None),
       Def("function_definition", 1, "inner", <<>>, None),
       Call(2, "identifier", "main"),
       Other("decorated_definition", 0),
       Def("function_definition", 4, "deco", <<>>, None) >>

\* class A:
\*     def __init__(self, x: int): ...
\*     @staticmethod
\*     def m() -> int:
\*         def h():
\*             f(); f()
\*     class B:
\*         def n(self): ...
ModelsPy ==
    << Def("class_definition", 0, "A", <<>>, None),
       Def("function_definition", 1, "__init__",
           <<Param("self", <<>>, <<>>), Param("x", <<"int">>, <<>>)>>, None),
       Other("decorated_definition", 1),
       Def("function_definition", 3, "m", <<>>, Some("int")),
       Def("function_definition", 4, "h", <<>>, None),
       Call(5, "identifier", "f"),
       Call(5, "identifier", "f"),
       Def("class_definition", 1, "B", <<>>, None),
       Def("function_definition", 8, "n", <<Param("self", <<>>, <<>>)>>, None) >>

\* class A:
\*     def m(self):
\*         m(); k()
\* def main(): ...
OtherPy ==
    << Def("class_definition", 0, "A", <<>>, None),
       Def("function_definition", 1, "m", <<Param("self", <<>>, <<>>)>>, None),
       Call(2, "identifier", "m"),
       Call(2, "identifier", "k"),
       Def("function_definition", 0, "main", <<>>, None) >>

\* def f():
\*     k()
UtilPy ==
    << Def("function_definition", 0, "f", <<>>, None),
       Call(1, "identifier", "k") >>

\* what WalkDir yields: an Err, or an entry with its path (relative to the
\* repository root) and its file type.  fs::read_to_string gives Err on a
\* file that cannot be read and on a directory.
SourceFile(path, tree) ==
    [ok |-> TRUE, path |-> path, extension |-> "py", file_type |-> "file",
     readable |-> TRUE, tree |-> tree]

Entries ==
    { SourceFile("flow.py", FlowPy),
      SourceFile("nested.py", NestedPy),
      SourceFile("models.py", ModelsPy),
      SourceFile("other.py", OtherPy),
      SourceFile("util.py", UtilPy),
      \* a .py file read_to_string fails on
      [ok |-> TRUE, path |-> "bad.py", extension |-> "py",
       file_type |-> "file", readable |-> FALSE, tree |-> <<>>],
      \* a directory whose name ends in .py
      [ok |-> TRUE, path |-> "pkg.py", extension |-> "py",
       file_type |-> "dir", readable |-> FALSE, tree |-> <<>>],
      \* a file with another extension
      [ok |-> TRUE, path |-> "README.md", extension |-> "md",
       file_type |-> "file", readable |-> TRUE, tree |-> <<>>],
      \* an entry WalkDir could not access
      [ok |-> FALSE, path |-> "locked", extension |-> "",
       file_type |-> "file", readable |-> FALSE, tree |-> <<>>] }

RepoNames == {"app"}

MaxEntries == 2
MaxRuns == 2

\* the walks of at most n entries: no path twice
Walks(n) ==
    {w \in SeqsUpTo(Entries, n) :
        \A a, b \in 1..Len(w) : a # b => w[a].path # w[b].path}

\* the paths of the entries of a walk
Paths(w) == [e \in 1..Len(w) |-> w[e].path]

\* the repositories a run may be given
AllWalks == Walks(MaxEntries)

(***************************************************************************)
(* One indexing run: main.rs "parse" / repo.rs parse_repo, then            *)
(* parse_repository.  pc:                                                  *)
(*   idle      no run yet                                                  *)
(*   walk      parse_repository's loop, before entry `entry`               *)
(*   extract   extract_classes_and_functions' loop, before root child node *)
(*   methods   process_class_methods' traverse, before node `node`         *)
(*   function  process_function_definition, after insert_function         *)
(*   done      "Parsing completed successfully"                            *)
(*   aborted   the process panicked (an expect failed)                     *)
(* Every INSERT is committed on its own, so the store between two inserts  *)
(* is a state of the program.                                              *)
(***************************************************************************)
CurFile == walk[entry]
CurTree == walk[entry].tree

\* last_insert_rowid read before the INSERT: the id of the row before
InsertedIdStale(table) ==
    IF Len(table) = 1 THEN 0 ELSE table[Len(table) - 1].id

\* the store's id of the row an INSERT just appended
InsertedId(table) == table[Len(table)].id

\* parse_repo / main: insert_repository, then parse_repository(repo_id)
StartParse(repo_name, w) ==
    /\ pc \in {"idle", "done", "aborted"}
    /\ runs < MaxRuns
    /\ Len(w) <= MaxEntries - walked
    /\ repositories' = insert_repository(
            [id |-> None, name |-> repo_name, description |-> None])
    /\ last_insert_rowid' = InsertedId(repositories')
    /\ repo_id' = AsI32(last_insert_rowid')
    /\ walk' = w
    /\ entry' = 1
    /\ pc' = "walk"
    /\ runs' = runs + 1
    /\ walked' = walked + Len(w)
    /\ history' = Append(history, Paths(w))
    /\ parsed' = <<>>
    /\ node' = 0
    /\ class_node' = 0
    /\ UNCHANGED <<classes, functions, function_dependencies, class_id,
                   func_class_id>>
    /\ UNCHANGED <<flowVars, attrVars, queryVars,
                   chatVars, repoVars>>

\* parse_repository: one iteration of `for entry in WalkDir::new(repo_path)`
WalkEntry ==
    /\ pc = "walk"
    /\ entry <= Len(walk)
    /\ \/ /\ ~CurFile.ok                 \* expect("Failed to access entry")
          /\ pc' = "aborted"
          /\ UNCHANGED <<entry, node, parsed>>
       \/ /\ CurFile.ok
          /\ CurFile.extension # "py"
          /\ entry' = entry + 1
          /\ UNCHANGED <<pc, node, parsed>>
       \/ /\ CurFile.ok
          /\ CurFile.extension = "py"
          /\ ~CurFile.readable           \* expect("Failed to read file")
          /\ pc' = "aborted"
          /\ UNCHANGED <<entry, node, parsed>>
       \/ /\ CurFile.ok
          /\ CurFile.extension = "py"
          /\ CurFile.readable            \* parse_file
          /\ pc' = "extract"
          /\ node' = 1
          /\ parsed' = Append(parsed, CurFile.path)
          /\ UNCHANGED entry
    /\ UNCHANGED <<storeVars, repo_id, walk, class_node, class_id,
                   func_class_id, runs, walked, history>>
    /\ UNCHANGED <<flowVars, attrVars, queryVars,
                   chatVars, repoVars>>

\* parse_repository returns
WalkDone ==
    /\ pc = "walk"
    /\ entry > Len(walk)
    /\ pc' = "done"
    /\ UNCHANGED <<storeVars, repo_id, walk, entry, node, class_node, class_id,
                   func_class_id, runs, walked, history, parsed>>
    /\ UNCHANGED <<flowVars, attrVars, queryVars,
                   chatVars, repoVars>>

\* extract_classes_and_functions: the "class_definition" arm up to the call
\* of process_class_methods
ExtractClass ==
    /\ pc = "extract"
    /\ node <= Len(CurTree)
    /\ CurTree[node].kind = "class_definition"
    /\ classes' = insert_class(
            create_class_struct(CurTree, node, repo_id, CurFile.path))
    /\ last_insert_rowid' = InsertedId(classes')
    /\ class_id' = AsI32(last_insert_rowid')
    /\ class_node' = node
    /\ pc' = "methods"
    /\ UNCHANGED <<repositories, functions, function_dependencies, repo_id,
                   walk, entry, node, func_class_id, runs, walked, history, parsed>>
    /\ UNCHANGED <<flowVars, attrVars, queryVars,
                   chatVars, repoVars>>

\* process_function_definition up to insert_function
ProcessFunction(cid) ==
    /\ functions' = insert_function(
            create_function_struct(CurTree, node, repo_id, cid, CurFile.path))
    /\ last_insert_rowid' = InsertedId(functions')
    /\ func_class_id' = cid
    /\ pc' = "function"
    /\ UNCHANGED <<repositories, classes, function_dependencies, repo_id,
                   walk, entry, node, class_node, class_id, runs, walked, history, parsed>>
    /\ UNCHANGED <<flowVars, attrVars, queryVars,
                   chatVars, repoVars>>

\* extract_classes_and_functions: the "function_definition" arm
ExtractFunction ==
    /\ pc = "extract"
    /\ node <= Len(CurTree)
    /\ CurTree[node].kind = "function_definition"
    /\ ProcessFunction(None)

\* extract_classes_and_functions: the `_ => {}` arm
ExtractOther ==
    /\ pc = "extract"
    /\ node <= Len(CurTree)
    /\ CurTree[node].kind \notin {"class_definition", "function_definition"}
    /\ node' = SubtreeEnd(CurTree, node) + 1
    /\ UNCHANGED <<storeVars, pc, repo_id, walk, entry, class_node, class_id,
                   func_class_id, runs, walked, history, parsed>>
    /\ UNCHANGED <<flowVars, attrVars, queryVars,
                   chatVars, repoVars>>

\* extract_classes_and_functions returns: parse_file is done
ExtractEnd ==
    /\ pc = "extract"
    /\ node > Len(CurTree)
    /\ pc' = "walk"
    /\ entry' = entry + 1
    /\ UNCHANGED <<storeVars, repo_id, walk, node, class_node, class_id,
                   func_class_id, runs, walked, history, parsed>>
    /\ UNCHANGED <<flowVars, attrVars, queryVars,
                   chatVars, repoVars>>

\* a traverse that goes below the class node and below function
\* definitions only
MethodsOtherShallow ==
    /\ pc = "methods"
    /\ node <= SubtreeEnd(CurTree, class_node)
    /\ CurTree[node].kind # "function_definition"
    /\ node' = IF node = class_node
               THEN node + 1 ELSE SubtreeEnd(CurTree, node) + 1
    /\ UNCHANGED <<storeVars, pc, repo_id, walk, entry, class_node, class_id,
                   func_class_id, runs, walked, history, parsed>>
    /\ UNCHANGED <<flowVars, attrVars, queryVars,
                   chatVars, repoVars>>

\* process_class_methods' traverse at a function definition
MethodsFunction ==
    /\ pc = "methods"
    /\ node <= SubtreeEnd(CurTree, class_node)
    /\ CurTree[node].kind = "function_definition"
    /\ ProcessFunction(Some(class_id))

\* traverse at any other node: on to its children
MethodsOther ==
    /\ pc = "methods"
    /\ node <= SubtreeEnd(CurTree, class_node)
    /\ CurTree[node].kind # "function_definition"
    /\ node' = node + 1
    /\ UNCHANGED <<storeVars, pc, repo_id, walk, entry, class_node, class_id,
                   func_class_id, runs, walked, history, parsed>>
    /\ UNCHANGED <<flowVars, attrVars, queryVars,
                   chatVars, repoVars>>

\* process_class_methods returns
MethodsEnd ==
    /\ pc = "methods"
    /\ node > SubtreeEnd(CurTree, class_node)
    /\ pc' = "extract"
    /\ class_node' = 0
    /\ UNCHANGED <<storeVars, repo_id, walk, entry, node, class_id,
                   func_class_id, runs, walked, history, parsed>>
    /\ UNCHANGED <<flowVars, attrVars, queryVars,
                   chatVars, repoVars>>

\* The class_id of the edge rows.  parser.rs:71 calls insert_dependencies
\* with (conn, &func_name, &dependencies) while db.rs:110 declares
\* (conn, function_name, class_id, dependencies): the call names no class_id.
\* Either the function's class_id or None reaches the rows.
EdgeClassIds(cid) == {cid, None}

\* process_function_definition from extract_dependencies on, and the return
\* to the loop that called it
InsertDependencies ==
    /\ pc = "function"
    /\ \E dependencies \in extract_dependencies(CurTree, node),
          cid \in EdgeClassIds(func_class_id) :
          /\ function_dependencies' = insert_dependencies(
                 UnwrapOr(extract_identifier(CurTree[node]), "<unknown>"),
                 cid, dependencies)
          /\ last_insert_rowid' = IF dependencies = <<>> THEN last_insert_rowid
                                  ELSE Len(function_dependencies')
    /\ IF class_node = 0
       THEN /\ pc' = "extract"
            /\ node' = SubtreeEnd(CurTree, node) + 1
       ELSE /\ pc' = "methods"
            /\ node' = node + 1
    /\ UNCHANGED <<repositories, classes, functions, repo_id, walk, entry,
                   class_node, class_id, func_class_id, runs, walked, history, parsed>>
    /\ UNCHANGED <<flowVars, attrVars, queryVars,
                   chatVars, repoVars>>

(***************************************************************************)
(* Failures of the store and of the parser during a run.  Every call of    *)
(* the run is followed by expect: a failure panics, and what the INSERTs   *)
(* before it committed stays in the database file.                         *)
(***************************************************************************)
\* The failures of a call inside parse_repository are explored in the last
\* run of a behaviour; the runs before it leave the stores it starts from.
LastRun == runs = MaxRuns

\* insert_repository fails: expect("Failed to insert repository"), before
\* parse_repository is called
InsertRepositoryFails ==
    /\ pc \in {"idle", "done", "aborted"}
    /\ runs < MaxRuns
    /\ pc' = "aborted"
    /\ UNCHANGED <<storeVars, repo_id, walk, entry, node, class_node, class_id,
                   func_class_id, runs, walked, history, parsed>>
    /\ UNCHANGED <<flowVars, attrVars, queryVars,
                   chatVars, repoVars>>

\* parser.parse gives None: expect("Failed to parse code")
ParseFails ==
    /\ LastRun
    /\ pc = "walk"
    /\ entry <= Len(walk)
    /\ CurFile.ok /\ CurFile.extension = "py" /\ CurFile.readable
    /\ pc' = "aborted"
    /\ UNCHANGED <<storeVars, repo_id, walk, entry, node, class_node, class_id,
                   func_class_id, runs, walked, history, parsed>>
    /\ UNCHANGED <<flowVars, attrVars, queryVars,
                   chatVars, repoVars>>

\* insert_class fails: expect("Failed to insert class")
InsertClassFails ==
    /\ LastRun
    /\ pc = "extract"
    /\ node <= Len(CurTree)
    /\ CurTree[node].kind = "class_definition"
    /\ pc' = "aborted"
    /\ UNCHANGED <<storeVars, repo_id, walk, entry, node, class_node, class_id,
                   func_class_id, runs, walked, history, parsed>>
    /\ UNCHANGED <<flowVars, attrVars, queryVars,
                   chatVars, repoVars>>

\* insert_function fails: expect("Failed to insert function")
InsertFunctionFails ==
    /\ LastRun
    /\ \/ pc = "extract" /\ node <= Len(CurTree)
       \/ pc = "methods" /\ node <= SubtreeEnd(CurTree, class_node)
    /\ CurTree[node].kind = "function_definition"
    /\ pc' = "aborted"
    /\ UNCHANGED <<storeVars, repo_id, walk, entry, node, class_node, class_id,
                   func_class_id, runs, walked, history, parsed>>
    /\ UNCHANGED <<flowVars, attrVars, queryVars,
                   chatVars, repoVars>>

\* the failing statement's transaction took the Function row with it
InsertDependenciesRollsBack ==
    /\ pc = "function"
    /\ functions' = SubSeq(functions, 1, Len(functions) - 1)
    /\ pc' = "aborted"
    /\ UNCHANGED <<repositories, classes, function_dependencies,
                   last_insert_rowid, repo_id, walk, entry, node, class_node,
                   class_id, func_class_id, runs, walked, history, parsed>>
    /\ UNCHANGED <<flowVars, attrVars, queryVars,
                   chatVars, repoVars>>

\* insert_dependencies fails, in prepare or in the execute of dependency
\* number done + 1: the rows of the first `done` dependencies are in
InsertDependenciesFails ==
    /\ LastRun
    /\ pc = "function"
    /\ \E dependencies \in extract_dependencies(CurTree, node),
          cid \in EdgeClassIds(func_class_id) :
          \E done \in 0..Len(dependencies) :
              /\ done < Len(dependencies) \/ dependencies = <<>>
              /\ function_dependencies' = insert_dependencies(
                     UnwrapOr(extract_identifier(CurTree[node]), "<unknown>"),
                     cid, SubSeq(dependencies, 1, done))
              /\ last_insert_rowid' = IF done = 0 THEN last_insert_rowid
                                      ELSE Len(function_dependencies')
    /\ pc' = "aborted"
    /\ UNCHANGED <<repositories, classes, functions, repo_id, walk, entry, node,
                   class_node, class_id, func_class_id, runs, walked, history, parsed>>
    /\ UNCHANGED <<flowVars, attrVars, queryVars,
                   chatVars, repoVars>>

\* initialize_db on a new database file: four empty tables
StoreEmpty ==
    /\ repositories = <<>>
    /\ classes = <<>>
    /\ functions = <<>>
    /\ function_dependencies = <<>>
    /\ last_insert_rowid = 0

IndexIdle ==
    /\ pc = "idle"
    /\ repo_id = 0
    /\ walk = <<>>
    /\ entry = 0
    /\ node = 0
    /\ class_node = 0
    /\ class_id = 0
    /\ func_class_id = None
    /\ runs = 0
    /\ walked = 0
    /\ history = <<>>
    /\ parsed = <<>>

FlowIdle ==
    /\ fpc = "idle"
    /\ flow = <<>>
    /\ visited = {}
    /\ stack = <<>>
    /\ result = None

AttrIdle ==
    /\ apc = "idle"
    /\ init_params = <<>>
    /\ attributes = <<>>

\* no query made yet
NoQuery == [op |-> "none", function_name |-> "", class_id |-> <<>>]

QueryIdle ==
    /\ query = NoQuery
    /\ answer = [ok |-> TRUE, value |-> <<>>]

\* no reconstruction made in this chat yet
ChatIdle == previous = None /\ failed = FALSE

\* no call made yet
NoCall ==
    [op |-> "none", repo_name |-> <<>>, persist |-> FALSE, ok |-> TRUE,
     removed |-> {}]

\* an empty working directory
RepoIdle ==
    /\ mpc = "idle"
    /\ dir = <<>>
    /\ depth = 0
    /\ merged = None
    /\ tags_txt = None
    /\ source = {}
    /\ scripts = {}
    /\ last_call = NoCall

\* what no specification but its own uses
RestIdle == ChatIdle /\ RepoIdle

(***************************************************************************)
(* Flow reconstruction: chat.rs.  build_flow's recursion is a stack of     *)
(* activation records; the record on top is the call that runs.            *)
(*   at = "entry"  the call has just been made                             *)
(*   at = "loop"   in `for (dependency, dep_class_id) in dependencies`,    *)
(*                 dependencies holding what is still to iterate           *)
(* flow holds formatted_flow as the sequence of the strings pushed to it.  *)
(***************************************************************************)
Header == [kind |-> "header", level |-> 0, function_name |-> "",
           description |-> <<"The program follows this logic flow:">>]

Placeholder == <<"No description available">>

\* "{indent}- Function: `{name}`\n{indent}  - Purpose: {description}\n",
\* indent being "  ".repeat(level)
FlowEntry(level, function_name, description) ==
    [kind |-> "function", level |-> level, function_name |-> function_name,
     description |-> description]

\* an activation record that forgets its level
FrameFlat(function_name, cid, level) ==
    [function_name |-> function_name, class_id |-> cid, level |-> 0,
     at |-> "entry", dependencies |-> <<>>]

Frame(function_name, cid, level) ==
    [function_name |-> function_name, class_id |-> cid, level |-> level,
     at |-> "entry", dependencies |-> <<>>]

Top == stack[Len(stack)]
Pop(st) == SubSeq(st, 1, Len(st) - 1)

\* the entry point format_program_flow starts from
EntryPoint == <<"main", None>>

\* format_program_flow up to its call of build_flow
FormatProgramFlow ==
    /\ fpc = "idle"
    /\ flow' = <<Header>>
    /\ visited' = {}
    /\ stack' = <<Frame(EntryPoint[1], EntryPoint[2], 0)>>
    /\ fpc' = "running"
    /\ UNCHANGED <<result, storeVars, indexVars, attrVars, queryVars,
                   chatVars, repoVars>>

\* a call of build_flow returns Ok(()); when it is the outermost call,
\* format_program_flow returns Ok(formatted_flow)
ReturnOk(st) ==
    /\ stack' = Pop(st)
    /\ IF Len(st) = 1
       THEN fpc' = "done" /\ result' = Some("Ok")
       ELSE UNCHANGED <<fpc, result>>

\* build_flow without its guard: no pair counts as visited
AlreadyVisitedNever(v, function_name, cid) == FALSE

\* `!visited.insert((function_name, class_id))`: the pair was there already
AlreadyVisited(v, function_name, cid) == <<function_name, cid>> \in v

\* build_flow: visited.insert finds the pair present
BuildFlowVisited ==
    /\ fpc = "running"
    /\ Top.at = "entry"
    /\ AlreadyVisited(visited, Top.function_name, Top.class_id)
    /\ ReturnOk(stack)
    /\ UNCHANGED <<flow, visited, storeVars, indexVars, attrVars, queryVars,
                   chatVars, repoVars>>

\* the query's value written as it is, the Err's text on a miss
DescriptionUnchecked(r) == r.value

\* the description build_flow writes: unwrap_or_else on the query's result
DescriptionOf(r) == IF r.ok THEN r.value ELSE Placeholder

\* what a query gives when the store fails it (a locked or unreadable
\* database file)
QueryErr == [ok |-> FALSE, value |-> <<"SqliteFailure">>]

\* build_flow giving up on a function whose docstring query failed: the
\* placeholder entry is written and the call returns without its loop
BuildFlowBodyStops(doc_fails, dep_fails) ==
    /\ fpc = "running"
    /\ Top.at = "entry"
    /\ ~AlreadyVisited(visited, Top.function_name, Top.class_id)
    /\ visited' = visited \cup {<<Top.function_name, Top.class_id>>}
    /\ LET r == get_function_description(Top.function_name, Top.class_id)
       IN  /\ flow' = Append(flow,
                   FlowEntry(Top.level, Top.function_name, DescriptionOf(r)))
           /\ IF r.ok
              THEN /\ stack' = [stack EXCEPT ![Len(stack)] =
                           [@ EXCEPT !.at = "loop",
                                     !.dependencies =
                                         get_dependencies(Top.function_name,
                                                          Top.class_id)]]
                   /\ UNCHANGED <<fpc, result>>
              ELSE ReturnOk(stack)
    /\ UNCHANGED <<storeVars, indexVars, attrVars, queryVars,
                   chatVars, repoVars>>

\* build_flow on an unvisited pair, up to the for loop.  doc_fails and
\* dep_fails say which of its two queries the store fails: the docstring
\* query's Err becomes the placeholder; the dependency query's Err leaves
\* through `?` in every activation and in format_program_flow
BuildFlowBody(doc_fails, dep_fails) ==
    /\ fpc = "running"
    /\ Top.at = "entry"
    /\ ~AlreadyVisited(visited, Top.function_name, Top.class_id)
    /\ visited' = visited \cup {<<Top.function_name, Top.class_id>>}
    /\ flow' = Append(flow,
            FlowEntry(Top.level, Top.function_name,
                DescriptionOf(IF doc_fails THEN QueryErr
                              ELSE get_function_description(Top.function_name,
                                                            Top.class_id))))
    /\ IF dep_fails
       THEN /\ stack' = <<>>
            /\ fpc' = "done"
            /\ result' = Some("Err")
       ELSE /\ stack' = [stack EXCEPT ![Len(stack)] =
                    [@ EXCEPT !.at = "loop",
                              !.dependencies =
                                  get_dependencies(Top.function_name,
                                                   Top.class_id)]]
            /\ UNCHANGED <<fpc, result>>
    /\ failed' = (failed \/ doc_fails \/ dep_fails)
    /\ UNCHANGED <<storeVars, indexVars, attrVars, queryVars,
                   previous, repoVars>>

\* both queries answered by the store
BuildFlowVisit == BuildFlowBody(FALSE, FALSE)

\* the store fails one of the queries, or both
BuildFlowQueryFails ==
    \E doc_fails, dep_fails \in BOOLEAN :
        /\ doc_fails \/ dep_fails
        /\ BuildFlowBody(doc_fails, dep_fails)

\* a loop that makes the recursive call for its first dependency only
BuildFlowRecurseFirst ==
    /\ fpc = "running"
    /\ Top.at = "loop"
    /\ Top.dependencies # <<>>
    /\ stack' = Append(
            [stack EXCEPT ![Len(stack)] =
                [@ EXCEPT !.dependencies = <<>>]],
            Frame(Head(Top.dependencies)[1], Head(Top.dependencies)[2],
                  Top.level + 1))
    /\ UNCHANGED <<fpc, flow, visited, result, storeVars, indexVars, attrVars, queryVars,
                   chatVars, repoVars>>

\* one iteration of the for loop: the recursive call at level + 1
BuildFlowRecurse ==
    /\ fpc = "running"
    /\ Top.at = "loop"
    /\ Top.dependencies # <<>>
    /\ stack' = Append(
            [stack EXCEPT ![Len(stack)] =
                [@ EXCEPT !.dependencies = Tail(@)]],
            Frame(Head(Top.dependencies)[1], Head(Top.dependencies)[2],
                  Top.level + 1))
    /\ UNCHANGED <<fpc, flow, visited, result, storeVars, indexVars, attrVars, queryVars,
                   chatVars, repoVars>>

\* the for loop is over: Ok(())
BuildFlowReturn ==
    /\ fpc = "running"
    /\ Top.at = "loop"
    /\ Top.dependencies = <<>>
    /\ ReturnOk(stack)
    /\ UNCHANGED <<flow, visited, storeVars, indexVars, attrVars, queryVars,
                   chatVars, repoVars>>

IndexNext ==
    \/ \E repo_name \in RepoNames, w \in AllWalks :
          StartParse(repo_name, w)
    \/ WalkEntry
    \/ WalkDone
    \/ ExtractClass
    \/ ExtractFunction
    \/ ExtractOther
    \/ ExtractEnd
    \/ MethodsFunction
    \/ MethodsOther
    \/ MethodsEnd
    \/ InsertDependencies

IndexInit ==
    /\ StoreEmpty /\ IndexIdle /\ FlowIdle /\ AttrIdle /\ QueryIdle /\ RestIdle

SpecIndex == IndexInit /\ [][IndexNext]_vars

IndexFaultsNext ==
    \/ IndexNext
    \/ InsertRepositoryFails
    \/ ParseFails
    \/ InsertClassFails
    \/ InsertFunctionFails
    \/ InsertDependenciesFails

\* any call of a run may fail
SpecIndexFaults == IndexInit /\ [][IndexFaultsNext]_vars

AttrSpecInit ==
    /\ AttrInit /\ StoreEmpty /\ IndexIdle /\ FlowIdle /\ QueryIdle /\ RestIdle

AttrNext == ClassifyAttributes

SpecAttr == AttrSpecInit /\ [][AttrNext]_vars

(***************************************************************************)
(* Flow reconstruction over the stores an indexed database can hold.       *)
(***************************************************************************)
FlowNames == {"main", "a", "b"}

MaxEdges == 3

\* rows of function_dependencies: every edge between free functions, and
\* edges of a method main of class 1
EdgePool ==
    {[function_name |-> f, dependency |-> d, class_id |-> None] :
        f \in FlowNames, d \in FlowNames}
    \cup {[function_name |-> "main", dependency |-> d, class_id |-> Some(1)] :
            d \in FlowNames}

FunctionRow(id, name, cid, docstring) ==
    [id |-> id, repo_id |-> 1, class_id |-> cid, name |-> name,
     parameters |-> Some(<<>>), return_type |-> None,
     file_location |-> "app.py", start_line |-> id, end_line |-> id,
     docstring |-> docstring]

\* tables functions: empty | main documented | main undocumented, a
\* documented | main a method of class 1 only, b documented
FlowFunctionTables ==
    { <<>>,
      <<FunctionRow(1, "main", None, Some(<<"entry point">>))>>,
      <<FunctionRow(1, "main", None, None),
        FunctionRow(2, "a", None, Some(<<"helper">>))>>,
      <<FunctionRow(1, "main", Some(1), Some(<<"method">>)),
        FunctionRow(2, "b", None, Some(<<"helper">>))>> }

FlowStoreInit ==
    /\ repositories = <<[id |-> 1, name |-> "app", description |-> <<>>]>>
    /\ classes = <<[id |-> 1, repo_id |-> 1, name |-> "A", attributes |-> None,
                    file_location |-> "app.py", start_line |-> 1,
                    end_line |-> 1, docstring |-> None]>>
    /\ functions \in FlowFunctionTables
    /\ function_dependencies \in SeqsUpTo(EdgePool, MaxEdges)
    /\ last_insert_rowid = 0

FlowNext ==
    \/ FormatProgramFlow
    \/ BuildFlowVisited
    \/ BuildFlowVisit
    \/ BuildFlowRecurse
    \/ BuildFlowReturn

\* every query is answered by the store
FlowInit ==
    /\ FlowStoreInit /\ IndexIdle /\ FlowIdle /\ AttrIdle /\ QueryIdle /\ RestIdle

SpecFlow == FlowInit /\ [][FlowNext]_vars

FlowFaultsNext ==
    \/ FlowNext
    \/ BuildFlowQueryFails

\* the store may fail any query
SpecFlowFaults == FlowInit /\ [][FlowFaultsNext]_vars

\* format_program_flow runs to its end once started
SpecFlowFair == SpecFlow /\ WF_vars(FlowNext)

(***************************************************************************)
(* The store's two queries on their own: db.rs get_dependencies and        *)
(* get_function_description are public and take any (name, class_id).      *)
(***************************************************************************)
QueryClassIds == {None, Some(1), Some(2)}

\* rows of function_dependencies of main as a free function, as a method of
\* class 1 and as a method of class 2, and a row of a
QueryEdgePool ==
    {[function_name |-> "main", dependency |-> d, class_id |-> c] :
        d \in {"a", "b"}, c \in {None, Some(1)}}
    \cup {[function_name |-> "main", dependency |-> "a", class_id |-> Some(2)],
          [function_name |-> "a", dependency |-> "b", class_id |-> None]}

\* main documented, a without docstring, a method main of class 1, and a
\* second free function main (of another file)
QueryFunctions ==
    <<FunctionRow(1, "main", None, Some(<<"entry point">>)),
      FunctionRow(2, "a", None, None),
      FunctionRow(3, "main", Some(1), Some(<<"method">>)),
      FunctionRow(4, "main", None, Some(<<"second">>))>>

QueryStoreInit ==
    /\ repositories = <<[id |-> 1, name |-> "app", description |-> <<>>]>>
    /\ classes = <<[id |-> 1, repo_id |-> 1, name |-> "A", attributes |-> None,
                    file_location |-> "app.py", start_line |-> 1,
                    end_line |-> 1, docstring |-> None]>>
    /\ functions \in FlowFunctionTables \cup {QueryFunctions}
    /\ function_dependencies \in SeqsUpTo(QueryEdgePool, MaxEdges)
    /\ last_insert_rowid = 0

\* a call of get_dependencies: its Result
GetDependencies(function_name, cid) ==
    /\ query' = [op |-> "get_dependencies", function_name |-> function_name,
                 class_id |-> cid]
    /\ answer' = [ok |-> TRUE, value |-> get_dependencies(function_name, cid)]
    /\ UNCHANGED <<storeVars, indexVars, flowVars, attrVars, chatVars, repoVars>>

\* a call of get_function_description: its Result
GetFunctionDescription(function_name, cid) ==
    /\ query' = [op |-> "get_function_description",
                 function_name |-> function_name, class_id |-> cid]
    /\ answer' = get_function_description(function_name, cid)
    /\ UNCHANGED <<storeVars, indexVars, flowVars, attrVars, chatVars, repoVars>>

StoreNext ==
    \/ \E function_name \in FlowNames, cid \in QueryClassIds :
          GetDependencies(function_name, cid)
    \/ \E function_name \in FlowNames, cid \in QueryClassIds :
          GetFunctionDescription(function_name, cid)

QueryInit ==
    /\ QueryStoreInit /\ IndexIdle /\ FlowIdle /\ AttrIdle /\ QueryIdle /\ RestIdle

SpecStore == QueryInit /\ [][StoreNext]_vars

(***************************************************************************)
(* The whole program: indexing runs, and a flow reconstruction over the    *)
(* store they fill (the indexing command and the chat are processes on the *)
(* same database file; a statement of one runs between two of the other).  *)
(***************************************************************************)
Init == IndexInit

Next == IndexNext \/ FlowNext

Spec == Init /\ [][Next]_vars

(***************************************************************************)
(* Claims about attribute classification (SpecAttr).                       *)
(***************************************************************************)
\* the constructor's parameters after the first one
Rest == Skip(init_params, 1)

\* "name: type" of a parameter, its type being the annotation, with the
\* default value if it has one, or "unknown"
AttributeOfParam(p) ==
    <<p.name, ":", " ">>
    \o (IF p.ann = <<>> THEN <<"unknown">>
        ELSE p.ann \o (IF p.def = <<>> THEN <<>> ELSE <<"=">> \o p.def))

NoCommaInDefaults == \A k \in 1..Len(Rest) : "," \notin Range(Rest[k].def)

\* C8: a parameter list with no comma inside a default value gives, in
\* order, one "name: type" entry per parameter after the first, the type
\* being "unknown" for a parameter without annotation.
C8_OneEntryPerParameter ==
    (apc = "done" /\ NoCommaInDefaults) =>
        /\ Len(attributes) = Len(Rest)
        /\ \A k \in 1..Len(Rest) :
              (k <= Len(attributes) /\ Rest[k].def = <<>>) =>
                  attributes[k] = AttributeOfParam(Rest[k])

NoCommaInAnnotations == \A k \in 1..Len(Rest) : "," \notin Range(Rest[k].ann)

\* C9: the parameter list is split only at commas outside (), [] and {}: a
\* parameter whose default value holds commas inside brackets stays one
\* attribute, so "self, items: list=[1,2,3]" gives ["items: list=[1,2,3]"].
\* (Stated for the lists whose only bracketed commas are in default values.)
C9_SplitOnlyAtDepthZero ==
    (apc = "done" /\ NoCommaInAnnotations) =>
        /\ Len(attributes) = Len(Rest)
        /\ \A k \in 1..Len(Rest) :
              (k <= Len(attributes) /\ Rest[k].ann # <<>>) =>
                  attributes[k] = AttributeOfParam(Rest[k])

(***************************************************************************)
(* Claims about flow reconstruction (SpecFlow, SpecFlowFair,               *)
(* SpecFlowFaults).                                                        *)
(***************************************************************************)
\* the function entries of formatted_flow
FlowEntries == SelectSeq(flow, LAMBDA e : e.kind = "function")

EntriesNamed(n) == {k \in 1..Len(FlowEntries) : FlowEntries[k].function_name = n}

\* every visited pair has been written once, and nothing else has
EmittedOncePerPair ==
    /\ Len(FlowEntries) = Cardinality(visited)
    /\ \A n \in FlowNames :
          Cardinality(EntriesNamed(n)) = Cardinality({p \in visited : p[1] = n})

EntryPointEmittedOnce ==
    fpc = "done" =>
        Cardinality({k \in 1..Len(FlowEntries) :
            /\ FlowEntries[k].function_name = EntryPoint[1]
            /\ FlowEntries[k].level = 0}) = 1

\* C1: whatever the store holds (self-calls, cycles, shared dependencies),
\* build_flow started from the entry point comes to an end, and writes each
\* (function_name, class_id) pair at most once, the entry point once.
C1_TerminatesEmittingOnce ==
    /\ <>(fpc = "done")
    /\ [](EmittedOncePerPair /\ EntryPointEmittedOnce)

HasEdge(f, d) ==
    \E k \in 1..Len(function_dependencies) :
        function_dependencies[k] =
            [function_name |-> f, dependency |-> d, class_id |-> None]

\* reached: a flow over main -> a -> main with a also calling itself, done
C1_Witness ==
    /\ fpc = "done"
    /\ HasEdge("main", "a") /\ HasEdge("a", "main") /\ HasEdge("a", "a")
    /\ Len(FlowEntries) = 2

EntryPointAbsent ==
    /\ \A k \in 1..Len(functions) :
          ~(functions[k].name = EntryPoint[1]
            /\ functions[k].class_id = EntryPoint[2])
    /\ \A k \in 1..Len(function_dependencies) :
          ~(function_dependencies[k].function_name = EntryPoint[1]
            /\ function_dependencies[k].class_id = EntryPoint[2])

\* C2: with no Function row and no edge row for the entry point,
\* format_program_flow returns Ok and the text holds, after its heading,
\* the one entry of the entry point with the placeholder description.
C2_AbsentEntryPoint ==
    (fpc = "done" /\ EntryPointAbsent) =>
        /\ result = Some("Ok")
        /\ flow = <<Header, FlowEntry(0, EntryPoint[1], Placeholder)>>

\* reached: such a run over a store that holds rows of other functions
C2_Witness ==
    /\ fpc = "done"
    /\ EntryPointAbsent
    /\ functions # <<>>
    /\ function_dependencies # <<>>

\* C3: format_program_flow returns Ok whatever the store answers, a failed
\* docstring or dependency query included.
C3_NeverReturnsErr == fpc = "done" => result = Some("Ok")

(***************************************************************************)
(* Claims about indexing (SpecIndex).                                      *)
(***************************************************************************)
\* the entries of a walk that are source files read and parsed
IsSource(e) == e.ok /\ e.extension = "py" /\ e.readable

NodesOfKind(t, kind) == {i \in 1..Len(t) : t[i].kind = kind}

RECURSIVE DefinitionsIn(_, _)
\* the number of definitions of a kind in the source files of a walk
DefinitionsIn(w, kind) ==
    IF w = <<>> THEN 0
    ELSE (IF IsSource(Head(w))
          THEN Cardinality(NodesOfKind(Head(w).tree, kind)) ELSE 0)
         + DefinitionsIn(Tail(w), kind)

RowsOfRepo(table, rid) == {k \in 1..Len(table) : table[k].repo_id = rid}

\* C4: after a run over source files holding N function definitions, at
\* any nesting position, and M class definitions, the store holds N
\* Function rows and M Class rows of that repository.
C4_RowPerDefinition ==
    pc = "done" =>
        /\ Cardinality(RowsOfRepo(functions, repo_id))
               = DefinitionsIn(walk, "function_definition")
        /\ Cardinality(RowsOfRepo(classes, repo_id))
               = DefinitionsIn(walk, "class_definition")

\* C5: every Function row with a class_id refers to a Class row of the
\* store, and that row has the Function row's repo_id.
C5_ClassOfSameRepository ==
    \A k \in 1..Len(functions) :
        functions[k].class_id # None =>
            \E j \in 1..Len(classes) :
                /\ classes[j].id = functions[k].class_id[1]
                /\ classes[j].repo_id = functions[k].repo_id

\* reached: a method row of the second repository, two Class rows stored
C5_Witness ==
    /\ Len(classes) >= 2
    /\ \E k \in 1..Len(functions) :
          /\ functions[k].class_id # None
          /\ functions[k].repo_id = 2

\* the callee identifiers of the plain-identifier calls under node i
CalleesUnder(t, i) ==
    {t[j].text : j \in {c \in Subtree(t, i) :
                           t[c].kind = "call" /\ t[c].target = "identifier"}}

\* the rows a step appended to function_dependencies
NewEdges ==
    SubSeq(function_dependencies', Len(function_dependencies) + 1,
           Len(function_dependencies'))

\* C6: processing one function definition inserts as many edge rows as
\* there are distinct callee identifiers called in its subtree, one row
\* per callee.
C6_OneEdgePerCallee ==
    [][pc = "function" =>
          /\ Len(NewEdges) = Cardinality(CalleesUnder(CurTree, node))
          /\ {NewEdges[k].dependency : k \in 1..Len(NewEdges)}
                 = CalleesUnder(CurTree, node)
          /\ \A k \in 1..Len(NewEdges) :
                NewEdges[k].function_name = CurTree[node].text]_vars

\* a callee is called twice or more under node i
CalledTwice(t, i) ==
    \E a, b \in Subtree(t, i) :
        /\ a # b
        /\ t[a].kind = "call" /\ t[a].target = "identifier"
        /\ t[b].kind = "call" /\ t[b].target = "identifier"
        /\ t[a].text = t[b].text

\* reached: the edges of main in flow.py (f(); f(); obj.g()) are in
C6_Witness ==
    /\ pc = "extract"
    /\ functions # <<>>
    /\ LET f == functions[Len(functions)]
       IN  /\ f.repo_id = repo_id
           /\ f.file_location = CurFile.path
           /\ CurTree[f.start_line].kind = "function_definition"
           /\ CalledTwice(CurTree, f.start_line)
           /\ node = f.end_line + 1
    /\ function_dependencies # <<>>

\* the Class row a Function row names
ClassOf(f) == {j \in 1..Len(classes) : classes[j].id = f.class_id[1]}

\* every Function row with a class_id lies in the file and the lines of
\* the one Class row with that id; every other Function row of a file lies
\* in no Class row's lines
MethodsOfTheirClass ==
    /\ \A j, k \in 1..Len(classes) : j # k => classes[j].id # classes[k].id
    /\ \A k \in 1..Len(functions) :
          LET f == functions[k]
          IN  IF f.class_id # None
              THEN \E j \in ClassOf(f) :
                      /\ classes[j].repo_id = f.repo_id
                      /\ classes[j].file_location = f.file_location
                      /\ classes[j].start_line < f.start_line
                      /\ f.end_line <= classes[j].end_line
              ELSE \A j \in 1..Len(classes) :
                      ~(/\ classes[j].repo_id = f.repo_id
                        /\ classes[j].file_location = f.file_location
                        /\ classes[j].start_line < f.start_line
                        /\ f.end_line <= classes[j].end_line)

\* the id read after insert_class is the id of the row just inserted
ReadsInsertedClassId ==
    (pc = "extract" /\ pc' = "methods") =>
        /\ Len(classes') = Len(classes) + 1
        /\ class_id' = classes'[Len(classes')].id
        /\ \A j \in 1..Len(classes) : classes[j].id # class_id'

\* C7: classes of the same name in different files of a repository get
\* different ids, and every Function row from the subtree of a class
\* carries the id of that class: the id read after insert_class is the id
\* of the row just inserted.
C7_MethodsOfTheirClass == [][ReadsInsertedClassId]_vars /\ []MethodsOfTheirClass

\* reached: two classes A of one repository, from two files, each with a
\* method row of its own
C7_Witness ==
    \E i, j \in 1..Len(classes) :
        /\ i # j
        /\ classes[i].name = classes[j].name
        /\ classes[i].repo_id = classes[j].repo_id
        /\ classes[i].file_location # classes[j].file_location
        /\ \E a, b \in 1..Len(functions) :
              /\ functions[a].class_id = Some(classes[i].id)
              /\ functions[b].class_id = Some(classes[j].id)

\* the definitions extract_classes_and_functions meets at the top of a
\* file are in the store for repository rid
TopLevelStored(e, rid) ==
    \A i \in Children(e.tree, 0) :
        /\ e.tree[i].kind = "function_definition" =>
              \E k \in RowsOfRepo(functions, rid) :
                  /\ functions[k].file_location = e.path
                  /\ functions[k].start_line = i
        /\ e.tree[i].kind = "class_definition" =>
              \E k \in RowsOfRepo(classes, rid) :
                  /\ classes[k].file_location = e.path
                  /\ classes[k].start_line = i

\* C10: when a run ends, by completing or by failing on a source file, the
\* entities of every readable source file of the walk, before or after the
\* failing one, are in the store.  (Stated for the walks every entry of
\* which WalkDir can access.)
C10_OtherFilesStillParsed ==
    (pc \in {"done", "aborted"} /\ \A k \in 1..Len(walk) : walk[k].ok) =>
        \A k \in 1..Len(walk) :
            IsSource(walk[k]) => TopLevelStored(walk[k], repo_id)

(***************************************************************************)
(* Claims about the store's queries (SpecStore).                           *)
(***************************************************************************)
\* a row of function_dependencies is of caller (n, cid): an absent cid only
\* for a row without class_id, a present cid only for a row with that id
EdgeOf(row, n, cid) ==
    /\ row.function_name = n
    /\ IF cid = None THEN row.class_id = None
       ELSE row.class_id # None /\ row.class_id[1] = cid[1]

\* the (dependency, class_id) pairs of the rows of caller (n, cid)
EdgesOf(n, cid) ==
    LET rows == SelectSeq(function_dependencies,
                          LAMBDA row : EdgeOf(row, n, cid))
    IN  [k \in 1..Len(rows) |-> <<rows[k].dependency, rows[k].class_id>>]

\* C11: get_dependencies(function_name, class_id) returns exactly the rows
\* of that function_name and that class_id, no class_id matching only rows
\* without one, and every returned pair carries the class_id asked for.
C11_ExactClassMatch ==
    query.op = "get_dependencies" =>
        /\ answer.ok
        /\ answer.value = EdgesOf(query.function_name, query.class_id)
        /\ \A k \in 1..Len(answer.value) :
              answer.value[k][2] = query.class_id

\* reached: main queried without class_id over a store holding rows of main
\* with and without class_id; only the rows without are returned
C11_Witness ==
    /\ query.op = "get_dependencies"
    /\ query.function_name = "main"
    /\ query.class_id = None
    /\ \E j, k \in 1..Len(function_dependencies) :
          /\ function_dependencies[j].function_name = "main"
          /\ function_dependencies[j].class_id = Some(1)
          /\ function_dependencies[k].function_name = "main"
          /\ function_dependencies[k].class_id = None
    /\ Len(answer.value) = 1

\* the rows of functions of (n, cid)
FunctionRowsOf(n, cid) ==
    {k \in 1..Len(functions) :
        /\ functions[k].name = n
        /\ IF cid = None THEN functions[k].class_id = None
           ELSE functions[k].class_id # None
                /\ functions[k].class_id[1] = cid[1]}

\* C12: get_function_description(function_name, class_id) returns the
\* docstring of a matching Function row whenever one exists, and fails if
\* and only if no row matches.
C12_FailsOnlyWithoutRow ==
    query.op = "get_function_description" =>
        LET hits == FunctionRowsOf(query.function_name, query.class_id)
        IN  /\ answer.ok <=> hits # {}
            /\ answer.ok =>
                  \E k \in hits : functions[k].docstring = Some(answer.value)

(***************************************************************************)
(* Further claims about indexing (SpecIndex).                              *)
(***************************************************************************)
\* a step of insert_repository: the id it returns is the id of the row it
\* appended and is greater than the id of every row there was
ReturnsNewGreatestId ==
    Len(repositories') > Len(repositories) =>
        /\ Len(repositories') = Len(repositories) + 1
        /\ repo_id' = repositories'[Len(repositories')].id
        /\ \A k \in 1..Len(repositories) : repositories[k].id < repo_id'

\* C13: every call of insert_repository returns an id strictly greater than
\* the ids returned by the calls before it, and that id is the id of the
\* Repository row the call created.
C13_RepoIdsIncrease == [][ReturnsNewGreatestId]_vars

\* reached: a second indexing run, given repository id 2 after id 1
C13_Witness ==
    /\ runs = 2
    /\ Len(repositories) = 2
    /\ repositories[1].id = 1
    /\ repo_id = 2
    /\ repositories[2].id = repo_id

(***************************************************************************)
(* Further claims about flow reconstruction (SpecFlow).                    *)
(***************************************************************************)
\* after the heading format_program_flow starts the text with, the text
\* holds function entries only
OnlyFunctionEntries ==
    flow # <<>> =>
        /\ flow[1] = Header
        /\ \A k \in 2..Len(flow) :
              /\ flow[k].kind = "function"
              /\ flow[k].level \in Nat

\* a step that emits an entry: it is the entry of the call that runs, at
\* level 0 for the entry point and else one level below the entry of the
\* function whose loop made the call
EmitsAtCallDepth ==
    (fpc = "running" /\ Len(flow') = Len(flow) + 1) =>
        LET e == flow'[Len(flow')]
        IN  /\ e.function_name = Top.function_name
            /\ IF Len(stack) = 1
               THEN e.level = 0 /\ e.function_name = EntryPoint[1]
               ELSE \E k \in 2..Len(flow) :
                      /\ flow[k].function_name =
                             stack[Len(stack) - 1].function_name
                      /\ e.level = flow[k].level + 1

C15_EdgesCarryFunctionClass ==
    [][pc = "function" =>
          \A k \in 1..Len(NewEdges) :
              /\ NewEdges[k].function_name = functions[Len(functions)].name
              /\ NewEdges[k].class_id = functions[Len(functions)].class_id]_vars

\* the Function rows of the run at hand made from node i of file e
RowsOfNode(e, i) ==
    {k \in RowsOfRepo(functions, repo_id) :
        /\ functions[k].file_location = e.path
        /\ functions[k].start_line = i}

\* node i of tree t lies in the subtree of a class definition
InClass(t, i) ==
    \E c \in NodesOfKind(t, "class_definition") : i \in Subtree(t, c)

\* the function definitions of t directly inside a function definition
\* that is in no class
NestedInFreeFunction(t) ==
    {i \in NodesOfKind(t, "function_definition") :
        /\ ~InClass(t, i)
        /\ t[i].parent # 0
        /\ t[t[i].parent].kind = "function_definition"}

\* C16: a function definition nested in a free function has a Function row
\* of its own without class_id, as the enclosing function has.
C16_NestedFunctionRecorded ==
    pc = "done" =>
        \A e \in 1..Len(walk) :
            IsSource(walk[e]) =>
                \A i \in NestedInFreeFunction(walk[e].tree) :
                    /\ \E k \in RowsOfNode(walk[e], i) :
                          functions[k].class_id = None
                    /\ \E k \in RowsOfNode(walk[e], walk[e].tree[i].parent) :
                          functions[k].class_id = None

\* the class definitions of t that are children of the module
TopLevelClasses(t) ==
    {c \in NodesOfKind(t, "class_definition") : t[c].parent = 0}

\* the Class rows of the run at hand made from node c of file e
ClassRowsOfNode(e, c) ==
    {j \in RowsOfRepo(classes, repo_id) :
        /\ classes[j].file_location = e.path
        /\ classes[j].start_line = c}

\* C17: after a run, every function definition at any depth under a
\* top-level class definition has exactly one Function row, and that row
\* carries the id of the top-level class.
C17_EveryFunctionUnderClass ==
    pc = "done" =>
        \A e \in 1..Len(walk) :
            IsSource(walk[e]) =>
                \A c \in TopLevelClasses(walk[e].tree) :
                    /\ Cardinality(ClassRowsOfNode(walk[e], c)) = 1
                    /\ \A i \in Subtree(walk[e].tree, c) :
                          walk[e].tree[i].kind = "function_definition" =>
                              /\ Cardinality(RowsOfNode(walk[e], i)) = 1
                              /\ \A k \in RowsOfNode(walk[e], i) :
                                    \A j \in ClassRowsOfNode(walk[e], c) :
                                        functions[k].class_id
                                            = Some(classes[j].id)

\* reached: a finished run over models.py, whose class A holds a decorated
\* method, a function nested in it and a method of a nested class B
C17_Witness ==
    /\ pc = "done"
    /\ \E e \in 1..Len(walk) : walk[e].path = "models.py"
    /\ \E k \in RowsOfRepo(functions, repo_id) :
          functions[k].name = "n" /\ functions[k].class_id # None
    /\ \E k \in RowsOfRepo(functions, repo_id) :
          functions[k].name = "h" /\ functions[k].class_id # None

(***************************************************************************)
(* Claims about runs that fail (SpecIndexFaults).                          *)
(***************************************************************************)
IsPrefix(s, t) == Len(s) <= Len(t) /\ SubSeq(t, 1, Len(s)) = s

\* a step leaves every row of the store where and as it was
RowsRemain ==
    /\ IsPrefix(repositories, repositories')
    /\ IsPrefix(classes, classes')
    /\ IsPrefix(functions, functions')
    /\ IsPrefix(function_dependencies, function_dependencies')

\* C18: every insert is committed on its own: whatever step a run aborts
\* at (an entry that cannot be read, a parse failure, a failed insert), the
\* rows inserted before that step remain in the store.
C18_InsertsSurviveAbort == [][RowsRemain]_vars

\* reached: a run aborted inside insert_dependencies, leaving the Function
\* row of method m of other.py (calling m and k) with one edge row of two
C18_Witness ==
    /\ pc = "aborted"
    /\ walk # <<>> /\ entry <= Len(walk)
    /\ CurFile.path = "other.py"
    /\ functions # <<>>
    /\ functions[Len(functions)].name = "m"
    /\ functions[Len(functions)].repo_id = repo_id
    /\ Cardinality(CalleesUnder(CurTree, node)) = 2
    /\ Len(function_dependencies) = 1
    /\ function_dependencies[1].function_name = "m"

(***************************************************************************)
(* Claims about repeated runs (SpecIndex).                                 *)
(***************************************************************************)
\* every run so far was over walk, which a run gets through
SameWalkEveryRun ==
    /\ pc = "done"
    /\ runs >= 1
    /\ Len(history) = runs
    /\ \A r \in 1..runs : history[r] = Paths(walk)
    /\ \A e \in 1..Len(walk) : walk[e].ok /\ (walk[e].extension = "py" =>
                                                   walk[e].readable)

\* a Function row without what the store assigns to it
Content(f) ==
    [name |-> f.name, method |-> f.class_id # None,
     parameters |-> f.parameters, return_type |-> f.return_type,
     file_location |-> f.file_location, start_line |-> f.start_line,
     end_line |-> f.end_line, docstring |-> f.docstring]

\* the number of edge rows f -> d among rows 1..n of function_dependencies
EdgeCount(f, d, n) ==
    Cardinality({j \in 1..n :
        /\ function_dependencies[j].function_name = f
        /\ function_dependencies[j].dependency = d})

\* the top-level function definitions of a walk: <<entry, node>>
FreeFunctions(w) ==
    UNION {{<<e, i>> : i \in {i \in Children(w[e].tree, 0) :
                                w[e].tree[i].kind = "function_definition"}} :
           e \in {e \in 1..Len(w) : IsSource(w[e])}}

\* the number of top-level function definitions named f of walk w that
\* call d
FreeCalls(w, f, d) ==
    Cardinality({x \in FreeFunctions(w) :
        /\ w[x[1]].tree[x[2]].text = f
        /\ d \in CalleesUnder(w[x[1]].tree, x[2])})

\* the names of the edge rows
EdgeNames ==
    {function_dependencies[j].function_name :
        j \in 1..Len(function_dependencies)}
    \cup {function_dependencies[j].dependency :
        j \in 1..Len(function_dependencies)}

\* the names of the top-level functions of a walk
FreeNames(w) == {w[x[1]].tree[x[2]].text : x \in FreeFunctions(w)}

\* after k runs over the same repository: k Repository rows, the Function
\* rows of the first run k times over, every edge row k times, and k times
\* each dependency of a free function in get_dependencies' answer
CopyPerRun ==
    SameWalkEveryRun =>
        LET k == runs
            n == Len(functions) \div k
            m == Len(function_dependencies) \div k
        IN  /\ Len(repositories) = k
            /\ Len(functions) = k * n
            /\ \A r \in 1..k, i \in 1..n :
                  /\ Content(functions[(r - 1) * n + i]) = Content(functions[i])
                  /\ functions[(r - 1) * n + i].repo_id = repositories[r].id
            /\ Len(function_dependencies) = k * m
            /\ \A f, d \in EdgeNames :
                  EdgeCount(f, d, Len(function_dependencies))
                      = k * EdgeCount(f, d, m)
            /\ \A f \in FreeNames(walk), d \in EdgeNames :
                  Cardinality({j \in 1..Len(get_dependencies(f, None)) :
                                  get_dependencies(f, None)[j][1] = d})
                      = k * FreeCalls(walk, f, d)

\* C19: indexing only appends: no step updates or deletes a row, and k
\* runs over the same repository leave k Repository rows and k copies of
\* every Function row and edge row, so that get_dependencies returns each
\* dependency of a free function k times.
C19_AppendOnlyCopies == [][RowsRemain]_vars /\ []CopyPerRun

\* reached: flow.py indexed twice; main's dependency f is returned twice
C19_Witness ==
    /\ SameWalkEveryRun
    /\ runs = 2
    /\ Len(walk) = 1 /\ walk[1].path = "flow.py"
    /\ get_dependencies("main", None) = <<<<"f", None>>, <<"f", None>>>>

(***************************************************************************)
(* Claims about undocumented functions in a flow (SpecFlow).               *)
(***************************************************************************)
\* no docstring can be fetched for free function n: it has no Function
\* row, or the row the query reads has none
Undocumented(n) ==
    LET hits == FunctionRowsOf(n, None)
    IN  hits = {} \/ functions[Min(hits)].docstring = None

\* the entries of the functions without docstring carry the placeholder
PlaceholderEntries ==
    \A k \in 2..Len(flow) :
        Undocumented(flow[k].function_name) =>
            flow[k].description = <<"No description available">>

\* the callees of the functions without docstring were gone on to: each
\* has an entry of its own
UndocumentedCalleesEmitted ==
    \A k \in 2..Len(flow) :
        Undocumented(flow[k].function_name) =>
            \A j \in 1..Len(function_dependencies) :
                (/\ function_dependencies[j].function_name
                        = flow[k].function_name
                 /\ function_dependencies[j].class_id = None)
                => \E i \in 2..Len(flow) :
                      flow[i].function_name
                          = function_dependencies[j].dependency

\* C20: a visited function whose docstring cannot be fetched (no Function
\* row, or a row without docstring) is emitted with the placeholder "No
\* description available", and the reconstruction goes on with that
\* function's dependency edges.
C20_PlaceholderAndContinue ==
    /\ PlaceholderEntries
    /\ fpc = "done" => (result = Some("Ok") /\ UndocumentedCalleesEmitted)

\* reached: main -> a -> b where a has no Function row: a is emitted with
\* the placeholder and b after it, one level below
C20_Witness ==
    /\ fpc = "done"
    /\ FunctionRowsOf("main", None) # {}
    /\ FunctionRowsOf("a", None) = {}
    /\ HasEdge("main", "a") /\ HasEdge("a", "b")
    /\ Len(flow) = 4
    /\ flow[3] = FlowEntry(1, "a", <<"No description available">>)
    /\ flow[4].function_name = "b" /\ flow[4].level = 2

(***************************************************************************)
(* Claims about the walk of a repository (SpecIndex).  The walk is every   *)
(* entry WalkDir yields below the root, whatever its depth and directory.  *)
(***************************************************************************)
\* how many times the run at hand gave path p to parse_file
TimesParsed(p) == Cardinality({k \in 1..Len(parsed) : parsed[k] = p})

\* an entry that is a file with the source extension, which can be read
IsSourceFile(e) ==
    e.ok /\ e.file_type = "file" /\ e.extension = "py" /\ e.readable

\* C21: in one run every file with the source extension, at any depth and
\* in any directory, is parsed exactly once, and no other file is parsed.
C21_EverySourceParsedOnce ==
    pc \in {"done", "aborted"} =>
        \A e \in 1..Len(walk) :
            TimesParsed(walk[e].path)
                = IF IsSourceFile(walk[e]) THEN 1 ELSE 0

\* C22: an entry that is not a regular file, such as a directory whose
\* name ends in the source extension, is never read as source text and does
\* not make the run fail.
C22_OnlyFilesAreRead ==
    pc = "aborted" => CurFile.file_type # "dir"

(***************************************************************************)
(* A chat session: chat_with_assistant answers one query after another     *)
(* over the same connection, each "Overall Code Logic" query calling       *)
(* format_program_flow anew.                                               *)
(***************************************************************************)
\* what a finished reconstruction gave: its Result and, for Ok, its text
Given ==
    [result |-> result, failed |-> failed,
     text |-> IF result = Some("Ok") THEN flow ELSE <<>>]

\* a second call that finds the visited set of the call before
FormatProgramFlowKeepsVisited ==
    /\ fpc = "done"
    /\ previous' = Some(Given)
    /\ flow' = <<Header>>
    /\ visited' = visited
    /\ stack' = <<Frame(EntryPoint[1], EntryPoint[2], 0)>>
    /\ fpc' = "running"
    /\ result' = None
    /\ failed' = FALSE
    /\ UNCHANGED <<storeVars, indexVars, attrVars, queryVars, repoVars>>

\* the next query of the session: format_program_flow called again, with
\* its own formatted_flow and visited
FormatProgramFlowAgain ==
    /\ fpc = "done"
    /\ previous' = Some(Given)
    /\ flow' = <<Header>>
    /\ visited' = {}
    /\ stack' = <<Frame(EntryPoint[1], EntryPoint[2], 0)>>
    /\ fpc' = "running"
    /\ result' = None
    /\ failed' = FALSE
    /\ UNCHANGED <<storeVars, indexVars, attrVars, queryVars, repoVars>>

\* the stores of the session: rows of main with and without class, and of a
SessionStoreInit ==
    /\ repositories = <<[id |-> 1, name |-> "app", description |-> <<>>]>>
    /\ classes = <<[id |-> 1, repo_id |-> 1, name |-> "A", attributes |-> None,
                    file_location |-> "app.py", start_line |-> 1,
                    end_line |-> 1, docstring |-> None]>>
    /\ functions \in FlowFunctionTables
    /\ function_dependencies \in SeqsUpTo(QueryEdgePool, MaxEdges)
    /\ last_insert_rowid = 0

SessionInit ==
    /\ SessionStoreInit /\ IndexIdle /\ FlowIdle /\ AttrIdle /\ QueryIdle
    /\ RestIdle

SessionNext ==
    \/ FlowFaultsNext
    \/ FormatProgramFlowAgain

\* the reconstructions of one session, the store failing any query
SpecSession == SessionInit /\ [][SessionNext]_vars

(***************************************************************************)
(* The chat after the indexing: main.rs runs one command per process, the  *)
(* flow is reconstructed over the store the finished runs left.            *)
(***************************************************************************)
\* the indexing command, while no chat has started
Indexing == fpc = "idle"

\* the chat, once the last indexing command has finished
Chatting == pc = "done"

ChatNext ==
    \/ \E repo_name \in RepoNames, w \in AllWalks :
          Indexing /\ StartParse(repo_name, w)
    \/ Indexing /\ WalkEntry
    \/ Indexing /\ WalkDone
    \/ Indexing /\ ExtractClass
    \/ Indexing /\ ExtractFunction
    \/ Indexing /\ ExtractOther
    \/ Indexing /\ ExtractEnd
    \/ Indexing /\ MethodsFunction
    \/ Indexing /\ MethodsOther
    \/ Indexing /\ MethodsEnd
    \/ Indexing /\ InsertDependencies
    \/ Chatting /\ FormatProgramFlow
    \/ Chatting /\ BuildFlowVisited
    \/ Chatting /\ BuildFlowVisit
    \/ Chatting /\ BuildFlowRecurse
    \/ Chatting /\ BuildFlowReturn

SpecChat == IndexInit /\ [][ChatNext]_vars

(***************************************************************************)
(* repo.rs find_and_merge_content.  A directory is the sequence of entries *)
(* fs::read_dir yields for it; a file name is the sequence of its stem and *)
(* its extension, a content the sequence of its words.                     *)
(***************************************************************************)
MaxDepth == 2

MaxListing == 2

File(name, content, readable) ==
    [kind |-> "file", name |-> name, content |-> content,
     readable |-> readable, entries |-> <<>>]

Directory(name, entries, readable) ==
    [kind |-> "dir", name |-> name, content |-> <<>>,
     readable |-> readable, entries |-> entries]

\* file_name.ends_with(suffix)
EndsWith(name, suffix) == name # <<>> /\ name[Len(name)] = suffix

\* content.contains(word)
Contains(content, word) == word \in Range(content)

\* docs/: guide.md, a Dockerfile of its own, and deep/ with deep.md
DocsDir ==
    Directory(<<"docs">>,
        << File(<<"guide", ".md">>, <<"guide">>, TRUE),
           File(<<"Dockerfile">>, <<"FROM", "inner">>, TRUE),
           Directory(<<"deep">>,
               << File(<<"deep", ".md">>, <<"deep">>, TRUE) >>, TRUE) >>,
        TRUE)

\* what the outermost directory may hold
RootPool ==
    { File(<<"README", ".md">>, <<"readme">>, TRUE),
      File(<<"Dockerfile">>, <<"FROM", "base">>, TRUE),
      File(<<"compose", ".yml">>, <<"services", ":", "web">>, TRUE),
      File(<<"ci", ".yaml">>, <<"jobs", ":", "test">>, TRUE),
      \* a Markdown file read_to_string fails on
      File(<<"locked", ".md">>, <<>>, FALSE),
      DocsDir,
      \* a directory read_dir fails on
      Directory(<<"private">>, <<>>, FALSE) }

\* the listings of the outermost directory: the order is read_dir's
Listings ==
    {d \in SeqsUpTo(RootPool, MaxListing) :
        \A a, b \in 1..Len(d) : a # b => d[a].name # d[b].name}

\* Ok((md_content, md_file_count, docker_content)) before the first entry
MergeOk(md_content, md_file_count, docker_content) ==
    [ok |-> TRUE, md_content |-> md_content, md_file_count |-> md_file_count,
     docker_content |-> docker_content]

\* the io::Error a `?` returns
MergeErr ==
    [ok |-> FALSE, md_content |-> <<>>, md_file_count |-> 0,
     docker_content |-> {}]

\* docker_content.insert(file_name, content): one content per name
HashMapInsert(map, name, content) ==
    {p \in map : p[1] # name} \cup {<<name, content>>}

RECURSIVE MergeEntries(_, _, _, _)
\* the for loop of find_and_merge_content from entry k on, acc holding the
\* three accumulators; a nested call's docker_content is dropped
MergeEntries(d, k, n, acc) ==
    IF k > Len(d) THEN acc
    ELSE LET e == d[k]
             nested == IF e.readable
                       THEN MergeEntries(e.entries, 1, n - 1,
                                         MergeOk(<<>>, 0, {}))
                       ELSE MergeErr
         IN  IF e.kind = "dir"
             THEN IF n > 0
                  THEN IF ~nested.ok THEN MergeErr
                       ELSE MergeEntries(d, k + 1, n,
                                [acc EXCEPT
                                    !.md_content = @ \o nested.md_content,
                                    !.md_file_count = @ + nested.md_file_count])
                  ELSE MergeEntries(d, k + 1, n, acc)
             ELSE IF EndsWith(e.name, ".md")
                  THEN IF ~e.readable THEN MergeErr
                       ELSE MergeEntries(d, k + 1, n,
                                [acc EXCEPT
                                    !.md_file_count = @ + 1,
                                    !.md_content = @ \o e.content \o <<"\n\n">>])
                  ELSE IF n = 0 /\ (\/ e.name = <<"Dockerfile">>
                                    \/ EndsWith(e.name, ".yml")
                                    \/ EndsWith(e.name, ".yaml"))
                       THEN IF ~e.readable THEN MergeErr
                            ELSE IF \/ e.name = <<"Dockerfile">>
                                    \/ Contains(e.content, "services")
                                 THEN MergeEntries(d, k + 1, n,
                                          [acc EXCEPT !.docker_content =
                                              HashMapInsert(@, e.name, e.content)])
                                 ELSE MergeEntries(d, k + 1, n, acc)
                       ELSE MergeEntries(d, k + 1, n, acc)

\* find_and_merge_content(dir, depth), dir given by its listing
find_and_merge_content(d, n) == MergeEntries(d, 1, n, MergeOk(<<>>, 0, {}))

\* a call of find_and_merge_content returns
FindAndMergeContent ==
    /\ mpc = "called"
    /\ merged' = Some(find_and_merge_content(dir, depth))
    /\ mpc' = "returned"
    /\ UNCHANGED <<dir, depth, tagVars, storeVars, indexVars, flowVars,
                   attrVars, queryVars, chatVars>>

MergeInit ==
    /\ dir \in Listings
    /\ depth \in 0..MaxDepth
    /\ mpc = "called"
    /\ merged = None
    /\ tags_txt = None /\ source = {} /\ scripts = {} /\ last_call = NoCall
    /\ StoreEmpty /\ IndexIdle /\ FlowIdle /\ AttrIdle /\ QueryIdle /\ ChatIdle

MergeNext == FindAndMergeContent

SpecMerge == MergeInit /\ [][MergeNext]_vars

(***************************************************************************)
(* repo.rs: the repositories kept in the working directory.  tags.txt      *)
(* holds one tagged name per line; source/ and scripts/ hold one directory *)
(* per repository.  A name is the token sequence of its text (the empty    *)
(* name is <<>>); every command is a process of its own.                   *)
(***************************************************************************)
\* the links given to clone_repo: with and without a trailing '/'
Links ==
    { <<"https:", "/", "/", "github.com", "/", "u", "/", "app">>,
      <<"https:", "/", "/", "github.com", "/", "u", "/", "app", "/">>,
      <<"https:", "/", "/", "github.com", "/", "u", "/", "lib">> }

\* the names given to apply_tag and remove_repo
TagNames == {<<"app">>, <<"lib">>}

\* link.trim_end_matches('/').split('/').last().unwrap()
RepoNameOf(link) ==
    LET pieces == Split(TrimEndMatches(link, {"/"}), "/")
    IN  pieces[Len(pieces)]

\* load_tags: the lines of tags.txt as a HashSet, empty without the file
load_tags == IF tags_txt = None THEN {} ELSE Range(tags_txt[1])

\* save_tags: one line per tag, in the HashSet's iteration order
save_tags(tags) == {Some(lines) : lines \in SetToSeqs(tags)}

\* save_tags panics: tags.txt cannot be opened and stays as it was, or a
\* writeln fails after the file was truncated and some of the lines are
\* written
save_tags_panics(tags) ==
    {tags_txt} \cup {Some(SubSeq(lines, 1, n)) :
                        lines \in SetToSeqs(tags), n \in 0..(Cardinality(tags) - 1)}

add_tag(repo_name, tags) == tags \cup {repo_name}

\* a remove_tag that removes nothing
remove_tag_keeps(repo_name, tags) == tags

remove_tag(repo_name, tags) == tags \ {repo_name}

RECURSIVE Filter(_, _)
\* .filter(|line| line != repo_name)
Filter(lines, repo_name) ==
    IF lines = <<>> THEN <<>>
    ELSE (IF Head(lines) # repo_name THEN <<Head(lines)>> ELSE <<>>)
         \o Filter(Tail(lines), repo_name)

\* the lines of a file written as lines.join("\n") + "\n": no line at all
\* is written as one empty line
JoinedLines(lines) == IF lines = <<>> THEN <<<<>>>> ELSE lines

CallOf(op, repo_name, persist, ok, removed) ==
    [op |-> op, repo_name |-> repo_name, persist |-> persist, ok |-> ok,
     removed |-> removed]

\* clone_repo past its clone: the clone is made unless source/<name>
\* exists, then the tag is added or removed and tags.txt saved; it returns
\* Ok unless save_tags panics
CloneRepo(link, persist) ==
    LET repo_name == RepoNameOf(link)
        tags == IF persist THEN add_tag(repo_name, load_tags)
                ELSE remove_tag(repo_name, load_tags)
    IN  /\ source' = source \cup {repo_name}
        /\ \E saved \in BOOLEAN :
              /\ tags_txt' \in IF saved THEN save_tags(tags)
                                ELSE save_tags_panics(tags)
              /\ last_call' = CallOf("clone_repo", repo_name, persist, saved, {})
        /\ UNCHANGED <<scripts, mergeVars, storeVars, indexVars, flowVars,
                       attrVars, queryVars, chatVars>>

\* Repository::clone fails: `?` returns the Err before the tags are touched
CloneRepoFails(link, persist) ==
    LET repo_name == RepoNameOf(link)
    IN  /\ repo_name \notin source
        /\ last_call' = CallOf("clone_repo", repo_name, persist, FALSE, {})
        /\ UNCHANGED <<tags_txt, source, scripts, mergeVars, storeVars,
                       indexVars, flowVars, attrVars, queryVars, chatVars>>

\* apply_tag: it returns unless save_tags panics
ApplyTag(repo_name) ==
    /\ \E saved \in BOOLEAN :
          /\ tags_txt' \in IF saved
                            THEN save_tags(add_tag(repo_name, load_tags))
                            ELSE save_tags_panics(add_tag(repo_name, load_tags))
          /\ last_call' = CallOf("apply_tag", repo_name, FALSE, saved, {})
    /\ UNCHANGED <<source, scripts, mergeVars, storeVars, indexVars, flowVars,
                   attrVars, queryVars, chatVars>>

\* cleanup_repos: every directory of scripts/, then of source/, whose name
\* is not a tag is removed
CleanupRepos ==
    LET tags == load_tags
    IN  /\ scripts' = scripts \cap tags
        /\ source' = source \cap tags
        /\ last_call' = CallOf("cleanup_repos", <<>>, FALSE, TRUE,
                             (scripts \cup source) \ tags)
        /\ UNCHANGED <<tags_txt, mergeVars, storeVars, indexVars, flowVars,
                       attrVars, queryVars, chatVars>>

\* a remove_dir_all of cleanup_repos fails: expect panics, with the entries
\* read_dir yielded before it (gone) removed; source/ is cleaned after
\* scripts/
CleanupReposPanics ==
    LET tags == load_tags
    IN  /\ \/ \E at \in scripts \ tags : \E gone \in SUBSET (scripts \ tags) :
                /\ at \notin gone
                /\ scripts' = scripts \ gone
                /\ source' = source
                /\ last_call' = CallOf("cleanup_repos", <<>>, FALSE, FALSE, gone)
           \/ \E at \in source \ tags : \E gone \in SUBSET (source \ tags) :
                /\ at \notin gone
                /\ scripts' = scripts \cap tags
                /\ source' = source \ gone
                /\ last_call' = CallOf("cleanup_repos", <<>>, FALSE, FALSE,
                                     (scripts \ tags) \cup gone)
        /\ UNCHANGED <<tags_txt, mergeVars, storeVars, indexVars, flowVars,
                       attrVars, queryVars, chatVars>>

\* remove_repo: of a tagged name, the two directories are removed and
\* tags.txt is rewritten without the name, a failure of any of the three
\* being only printed (a failed fs::write leaves the file as it was, or
\* empty); otherwise, and without tags.txt, nothing is done.  ok: the name
\* was tagged and tags.txt was rewritten
RemoveRepo(repo_name) ==
    /\ IF tags_txt # None /\ repo_name \in Range(tags_txt[1])
       THEN /\ \E source_fails, scripts_fails \in BOOLEAN :
                  /\ source' = IF source_fails THEN source
                               ELSE source \ {repo_name}
                  /\ scripts' = IF scripts_fails THEN scripts
                                ELSE scripts \ {repo_name}
            /\ \E written \in BOOLEAN :
                  /\ tags_txt' \in
                        IF written
                        THEN {Some(JoinedLines(Filter(tags_txt[1], repo_name)))}
                        ELSE {tags_txt, Some(<<>>)}
                  /\ last_call' = CallOf("remove_repo", repo_name, FALSE, written,
                                       (source \ source') \cup (scripts \ scripts'))
       ELSE /\ last_call' = CallOf("remove_repo", repo_name, FALSE, FALSE, {})
            /\ UNCHANGED <<tags_txt, source, scripts>>
    /\ UNCHANGED <<mergeVars, storeVars, indexVars, flowVars, attrVars,
                   queryVars, chatVars>>

\* process_repository writes the scripts of a cloned repository
WriteScripts(repo_name) ==
    /\ repo_name \in source
    /\ scripts' = scripts \cup {repo_name}
    /\ last_call' = CallOf("process_repository", repo_name, FALSE, TRUE, {})
    /\ UNCHANGED <<tags_txt, source, mergeVars, storeVars, indexVars, flowVars,
                   attrVars, queryVars, chatVars>>

TagsInit ==
    /\ mpc = "idle" /\ dir = <<>> /\ depth = 0 /\ merged = None
    /\ tags_txt = None /\ source = {} /\ scripts = {} /\ last_call = NoCall
    /\ StoreEmpty /\ IndexIdle /\ FlowIdle /\ AttrIdle /\ QueryIdle /\ ChatIdle

TagsNext ==
    \/ \E link \in Links, persist \in BOOLEAN : CloneRepo(link, persist)
    \/ \E link \in Links, persist \in BOOLEAN : CloneRepoFails(link, persist)
    \/ \E repo_name \in TagNames : ApplyTag(repo_name)
    \/ CleanupRepos
    \/ CleanupReposPanics
    \/ \E repo_name \in TagNames : RemoveRepo(repo_name)
    \/ \E repo_name \in TagNames : WriteScripts(repo_name)

SpecTags == TagsInit /\ [][TagsNext]_vars

(***************************************************************************)
(* Claims about the attributes of a Class row (SpecIndex).                 *)
(***************************************************************************)
\* the tree of the source file at a path
TreeOf(path) == (CHOOSE e \in Entries : e.path = path).tree

\* the function definitions under class node c other than the constructor
MethodsIn(t, c) ==
    {i \in Subtree(t, c) :
        t[i].kind = "function_definition" /\ t[i].text # "__init__"}

\* the tokens of the attributes column of a Class row
SummaryTokens(class) ==
    IF class.attributes = None THEN {} ELSE Range(class.attributes[1])

\* C23: every method of a class other than the constructor contributes its
\* name, with "-> <return type>" when it has a return annotation, to the
\* class's summary; the constructor contributes its parameters only.
C23_MethodsInSummary ==
    \A k \in 1..Len(classes) :
        LET t == TreeOf(classes[k].file_location)
        IN  /\ \A i \in MethodsIn(t, classes[k].start_line) :
                  /\ t[i].text \in SummaryTokens(classes[k])
                  /\ t[i].ret # None =>
                        /\ "->" \in SummaryTokens(classes[k])
                        /\ t[i].ret[1] \in SummaryTokens(classes[k])
            /\ "__init__" \notin SummaryTokens(classes[k])

(***************************************************************************)
(* Claims about the pairs and names of one flow reconstruction (SpecFlow). *)
(***************************************************************************)
\* the rows of function_dependencies stored with class_id cid
EdgeRows(cid) ==
    {r \in Range(function_dependencies) : r.class_id = cid}

\* C26: every pair a flow reconstruction visits, and every call of build_flow
\* it makes, carries the class_id of the entry point ('main', no class): each
\* visited name other than main is the dependency of a row without class_id
\* of a visited name, and no row stored with a class id is followed.
C26_VisitedCarryEntryClass ==
    /\ \A p \in visited :
          /\ p[2] = EntryPoint[2]
          /\ \/ p = EntryPoint
             \/ \E r \in EdgeRows(EntryPoint[2]) :
                   r.dependency = p[1] /\ <<r.function_name, None>> \in visited
    /\ \A k \in 1..Len(stack) :
          /\ stack[k].class_id = EntryPoint[2]
          /\ \A d \in Range(stack[k].dependencies) : d[2] = EntryPoint[2]
    /\ \A k \in 1..Len(flow) :
          flow[k].kind = "function" =>
              <<flow[k].function_name, EntryPoint[2]>> \in visited

\* a finished flow that visited main and a callee, over a store holding a row
\* of main with a class id whose dependency was not visited
C26_Witness ==
    /\ fpc = "done"
    /\ Cardinality(visited) >= 2
    /\ \E r \in EdgeRows(Some(1)) :
          r.function_name = "main" /\ <<r.dependency, None>> \notin visited

RECURSIVE ReachableFrom(_, _)
\* the names reachable from the names S along the rows stored with cid
ReachableFrom(S, cid) ==
    LET N == S \cup {r.dependency : r \in {e \in EdgeRows(cid) :
                                              e.function_name \in S}}
    IN  IF N = S THEN S ELSE ReachableFrom(N, cid)

\* the names of the function entries of the text
EmittedNames ==
    {flow[k].function_name : k \in {j \in 1..Len(flow) :
                                        flow[j].kind = "function"}}

\* C27: when no query fails, the names a finished flow reconstruction has
\* emitted are exactly the names reachable from the entry point along the
\* rows with the entry point's class_id: a function of the set of rows, the
\* same for every order of the rows in the table.
C27_EmittedIsReachable ==
    fpc = "done" =>
        /\ result = Some("Ok")
        /\ EmittedNames = ReachableFrom({EntryPoint[1]}, EntryPoint[2])

\* main -> b stored before main -> a and a -> b: b is emitted under main,
\* at level 1, and a after it
C27_Witness ==
    /\ fpc = "done"
    /\ function_dependencies =
          <<[function_name |-> "main", dependency |-> "b", class_id |-> None],
            [function_name |-> "main", dependency |-> "a", class_id |-> None],
            [function_name |-> "a", dependency |-> "b", class_id |-> None]>>
    /\ EmittedNames = {"main", "a", "b"}
    /\ \E k \in 1..Len(flow) :
          /\ flow[k].function_name = "b" /\ flow[k].level = 1
          /\ \E j \in (k + 1)..Len(flow) : flow[j].function_name = "a"

(***************************************************************************)
(* Claims about functions of the same name (SpecChat).                     *)
(***************************************************************************)
\* no run so far met an entry that ends it
CleanHistory ==
    \A r \in 1..Len(history) : \A k \in 1..Len(history[r]) :
        LET e == CHOOSE x \in Entries : x.path = history[r][k]
        IN  e.ok /\ (e.extension = "py" => e.readable)

\* the Function rows of free functions
FreeRows == {i \in 1..Len(functions) : functions[i].class_id = None}

\* the identifiers called in the definition a Function row was made from
CalleesOfRow(i) ==
    CalleesUnder(TreeOf(functions[i].file_location), functions[i].start_line)

\* the names get_dependencies returns
DependencyNames(function_name, cid) ==
    {d[1] : d \in Range(get_dependencies(function_name, cid))}

\* C24: edges are keyed by (function_name, class_id) only: after complete
\* runs, get_dependencies for the name of a free function returns the
\* callees of every free function of that name, whatever its file or
\* repository, and a flow that visits the name visits the callees of all of
\* them.
C24_SameNameCollides ==
    (CleanHistory /\ pc = "done") =>
        \A i \in FreeRows :
            /\ CalleesOfRow(i) \subseteq DependencyNames(functions[i].name, None)
            /\ (fpc = "done" /\ <<functions[i].name, None>> \in visited) =>
                  \A d \in CalleesOfRow(i) :
                      <<d, None>> \in visited /\ d \in EmittedNames

\* flow.py (f calls main) and util.py (f calls k) indexed: the flow from
\* main through f has emitted k
C24_Witness ==
    /\ CleanHistory /\ pc = "done" /\ fpc = "done"
    /\ \E i, j \in FreeRows :
          /\ functions[i].name = "f" /\ functions[j].name = "f"
          /\ functions[i].file_location # functions[j].file_location
          /\ CalleesOfRow(i) = {"main"} /\ CalleesOfRow(j) = {"k"}
    /\ EmittedNames = {"main", "f", "k"}

(***************************************************************************)
(* Claims about the reconstructions of one session (SpecSession).          *)
(***************************************************************************)
\* this reconstruction and the one before it both returned their text
BothReturnedText ==
    /\ fpc = "done"
    /\ result = Some("Ok")
    /\ previous # None
    /\ previous[1].result = Some("Ok")

\* the store answered every query of both
NeitherFailed == ~failed /\ ~previous[1].failed

DockerFilesOf(d) ==
    {<<d[k].name, d[k].content>> : k \in {j \in 1..Len(d) :
        /\ d[j].kind = "file"
        /\ \/ d[j].name = <<"Dockerfile">>
           \/ /\ EndsWith(d[j].name, ".yml") \/ EndsWith(d[j].name, ".yaml")
              /\ Contains(d[j].content, "services")}}

RECURSIVE MarkdownCount(_, _)
\* the Markdown files of a directory down to n levels of subdirectories
MarkdownCount(d, n) ==
    IF d = <<>> THEN 0
    ELSE (IF Head(d).kind = "file"
          THEN (IF EndsWith(Head(d).name, ".md") THEN 1 ELSE 0)
          ELSE (IF n > 0 THEN MarkdownCount(Head(d).entries, n - 1) ELSE 0))
         + MarkdownCount(Tail(d), n)

\* the call has returned Ok
MergeReturned == mpc = "returned" /\ merged[1].ok

\* C25: for every value of depth, find_and_merge_content returns the
\* Docker-related files of the outermost directory, and counts the Markdown
\* files from the outermost directory down to depth levels of
\* subdirectories.
C25_DockerAtEveryDepth ==
    MergeReturned =>
        /\ merged[1].docker_content = DockerFilesOf(dir)
        /\ merged[1].md_file_count = MarkdownCount(dir, depth)

(***************************************************************************)
(* Claims about tags and cleanup (SpecTags).                               *)
(***************************************************************************)
\* the call a step made
Made(op) == last_call'.op = op

\* cleanup_repos removes no directory of a name in the tag set
KeepsTagged ==
    \A repo_name \in load_tags :
        /\ repo_name \in source => repo_name \in source'
        /\ repo_name \in scripts => repo_name \in scripts'

\* no directory of an untagged name is left
UntaggedGone == (source' \cup scripts') \subseteq load_tags

\* the tag of the call's repository after the call
TaggedAfter == last_call'.repo_name \in load_tags'

====
